---- MODULE Spec2Model ----
(***************************************************************************)
(* FPDS question-answering service: the two HTTP routes of                 *)
(* routes/questions.py and the per-request pipeline of                     *)
(* services/fpds_query_helper.py (helper construction, filter generation,  *)
(* database find, result formatting, response).  Spec is the behaviour of  *)
(* the routes; LibSpec calls the operations of the field mapper, the       *)
(* helpers and the storage service on their own.                           *)
(*                                                                         *)
(* Text that the code inspects character by character (questions, intent   *)
(* keywords, context labels, string values of a filter) is a sequence of   *)
(* one-character strings.  Names the code only compares for equality       *)
(* (dictionary keys, field names) are TLA+ strings.                        *)
(***************************************************************************)
EXTENDS Integers, Sequences, FiniteSets, TLC

\* ------------------------------------------------------------------------
\* Bounds of the model
\* ------------------------------------------------------------------------
\* number of POST /query requests one behaviour handles
MaxRequests == 2

\* POST /query requests the server holds at the same time
MaxConcurrent == 3

\* number of documents of the collection that can match a filter
MaxDocs == 3

\* documents of a collection that holds more than the default limit
LargeCollection == 101

\* ------------------------------------------------------------------------
\* Text helpers (Python str.lower and the `in` operator on strings)
\* ------------------------------------------------------------------------
UpperAlphabet ==
  <<"A","B","C","D","E","F","G","H","I","J","K","L","M",
    "N","O","P","Q","R","S","T","U","V","W","X","Y","Z">>

LowerAlphabet ==
  <<"a","b","c","d","e","f","g","h","i","j","k","l","m",
    "n","o","p","q","r","s","t","u","v","w","x","y","z">>

LowerChar(c) ==
  IF \E i \in 1..26 : UpperAlphabet[i] = c
  THEN LowerAlphabet[CHOOSE i \in 1..26 : UpperAlphabet[i] = c]
  ELSE c

\* str.lower()
Lower(s) == [i \in 1..Len(s) |-> LowerChar(s[i])]

\* t in s, for two strings
Contains(s, t) ==
  \E i \in 1..(Len(s) - Len(t) + 1) : SubSeq(s, i, i + Len(t) - 1) = t

\* any(term in s for term in terms)
AnyTermIn(terms, s) == \E i \in 1..Len(terms) : Contains(s, terms[i])

\* sep.join(parts)
RECURSIVE Join(_, _)
Join(sep, parts) ==
  IF Len(parts) = 0 THEN <<>>
  ELSE IF Len(parts) = 1 THEN parts[1]
  ELSE parts[1] \o sep \o Join(sep, Tail(parts))

\* ------------------------------------------------------------------------
\* Keyword tables and context labels of _enhance_query_understanding and
\* _get_query_specific_fields
\* ------------------------------------------------------------------------
\* fpds_query_helper.py:141
service_intent_terms ==
  << <<"o","p","p","o","r","t","u","n","i","t","y">>,
     <<"s","e","r","v","i","c","e">>,
     <<"c","y","b","e","r","s","e","c","u","r","i","t","y">>,
     <<"i","t">>,
     <<"c","o","n","s","t","r","u","c","t","i","o","n">>,
     <<"m","a","i","n","t","e","n","a","n","c","e">>,
     <<"c","o","n","s","u","l","t","i","n","g">>,
     <<"t","r","a","i","n","i","n","g">>,
     <<"r","e","s","e","a","r","c","h">>,
     <<"s","o","f","t","w","a","r","e">>,
     <<"h","a","r","d","w","a","r","e">>,
     <<"s","u","p","p","l","i","e","s">>,
     <<"s","e","c","u","r","i","t","y">>,
     <<"m","e","d","i","c","a","l">> >>

\* fpds_query_helper.py:145
set_aside_intent_terms ==
  << <<"8","a">>,
     <<"8","a">>,
     <<"s","m","a","l","l"," ","b","u","s","i","n","e","s","s">>,
     <<"w","o","m","e","n"," ","o","w","n","e","d">>,
     <<"v","e","t","e","r","a","n"," ","o","w","n","e","d">>,
     <<"m","i","n","o","r","i","t","y"," ","o","w","n","e","d">>,
     <<"d","i","s","a","d","v","a","n","t","a","g","e","d">>,
     <<"h","u","b","z","o","n","e">>,
     <<"s","e","t"," ","a","s","i","d","e">>,
     <<"s","e","t","-","a","s","i","d","e">> >>

\* fpds_query_helper.py:149
agency_intent_terms ==
  << <<"n","a","s","a">>,
     <<"d","o","d">>,
     <<"n","a","v","y">>,
     <<"a","r","m","y">>,
     <<"a","i","r"," ","f","o","r","c","e">>,
     <<"d","e","f","e","n","s","e">>,
     <<"h","o","m","e","l","a","n","d"," ","s","e","c","u","r","i","t","y">>,
     <<"e","n","e","r","g","y">>,
     <<"h","e","a","l","t","h">>,
     <<"t","r","e","a","s","u","r","y">>,
     <<"i","n","t","e","r","i","o","r">>,
     <<"a","g","r","i","c","u","l","t","u","r","e">>,
     <<"c","o","m","m","e","r","c","e">>,
     <<"l","a","b","o","r">>,
     <<"t","r","a","n","s","p","o","r","t","a","t","i","o","n">>,
     <<"e","d","u","c","a","t","i","o","n">>,
     <<"v","e","t","e","r","a","n","s">>,
     <<"j","u","s","t","i","c","e">>,
     <<"s","t","a","t","e">>,
     <<"e","p","a">>,
     <<"g","s","a">>,
     <<"s","s","a">>,
     <<"o","p","m">>,
     <<"n","r","c">>,
     <<"f","c","c">> >>

\* fpds_query_helper.py:153
vendor_intent_terms ==
  << <<"b","o","o","z"," ","a","l","l","e","n">>,
     <<"b","o","e","i","n","g">>,
     <<"l","o","c","k","h","e","e","d">>,
     <<"r","a","y","t","h","e","o","n">>,
     <<"n","o","r","t","h","r","o","p">>,
     <<"g","e","n","e","r","a","l"," ","d","y","n","a","m","i","c","s">>,
     <<"c","o","m","p","a","n","y">>,
     <<"v","e","n","d","o","r">>,
     <<"c","o","n","t","r","a","c","t","o","r">> >>

\* fpds_query_helper.py:157
date_intent_terms ==
  << <<"e","x","p","i","r","i","n","g">>,
     <<"e","x","p","i","r","e","d">>,
     <<"a","c","t","i","v","e">>,
     <<"r","e","c","e","n","t">>,
     <<"o","l","d">>,
     <<"t","h","i","s"," ","y","e","a","r">>,
     <<"l","a","s","t"," ","y","e","a","r">>,
     <<"n","e","x","t"," ","y","e","a","r">>,
     <<"2","0","2","4">>,
     <<"2","0","2","5">>,
     <<"2","0","2","6">> >>

\* fpds_query_helper.py:161
amount_intent_terms ==
  << <<"l","a","r","g","e">>,
     <<"s","m","a","l","l">>,
     <<"m","i","l","l","i","o","n">>,
     <<"b","i","l","l","i","o","n">>,
     <<"t","h","o","u","s","a","n","d">>,
     <<"h","i","g","h"," ","v","a","l","u","e">>,
     <<"l","o","w"," ","v","a","l","u","e">>,
     <<"$">>,
     <<"a","m","o","u","n","t">>,
     <<"v","a","l","u","e">> >>

\* fpds_query_helper.py:180
service_terms ==
  << <<"c","y","b","e","r","s","e","c","u","r","i","t","y">>,
     <<"i","t">>,
     <<"c","o","m","p","u","t","e","r">>,
     <<"s","o","f","t","w","a","r","e">>,
     <<"h","a","r","d","w","a","r","e">>,
     <<"c","o","n","s","t","r","u","c","t","i","o","n">>,
     <<"m","a","i","n","t","e","n","a","n","c","e">>,
     <<"c","o","n","s","u","l","t","i","n","g">>,
     <<"t","r","a","i","n","i","n","g">>,
     <<"r","e","s","e","a","r","c","h">>,
     <<"s","e","c","u","r","i","t","y">>,
     <<"m","e","d","i","c","a","l">>,
     <<"h","e","a","l","t","h","c","a","r","e">> >>

\* fpds_query_helper.py:185
set_aside_terms ==
  << <<"8","a">>,
     <<"8","a">>,
     <<"s","m","a","l","l"," ","b","u","s","i","n","e","s","s">>,
     <<"w","o","m","e","n"," ","o","w","n","e","d">>,
     <<"v","e","t","e","r","a","n"," ","o","w","n","e","d">>,
     <<"m","i","n","o","r","i","t","y"," ","o","w","n","e","d">>,
     <<"d","i","s","a","d","v","a","n","t","a","g","e","d">>,
     <<"h","u","b","z","o","n","e">>,
     <<"s","e","t"," ","a","s","i","d","e">>,
     <<"s","e","t","-","a","s","i","d","e">> >>

\* fpds_query_helper.py:190
agency_terms ==
  << <<"n","a","s","a">>,
     <<"d","o","d">>,
     <<"n","a","v","y">>,
     <<"a","r","m","y">>,
     <<"a","i","r"," ","f","o","r","c","e">>,
     <<"d","e","f","e","n","s","e">>,
     <<"h","o","m","e","l","a","n","d"," ","s","e","c","u","r","i","t","y">>,
     <<"e","n","e","r","g","y">>,
     <<"h","e","a","l","t","h">>,
     <<"t","r","e","a","s","u","r","y">>,
     <<"i","n","t","e","r","i","o","r">>,
     <<"a","g","r","i","c","u","l","t","u","r","e">>,
     <<"c","o","m","m","e","r","c","e">>,
     <<"l","a","b","o","r">>,
     <<"t","r","a","n","s","p","o","r","t","a","t","i","o","n">>,
     <<"e","d","u","c","a","t","i","o","n">>,
     <<"v","e","t","e","r","a","n","s">>,
     <<"j","u","s","t","i","c","e">>,
     <<"s","t","a","t","e">>,
     <<"e","p","a">>,
     <<"g","s","a">>,
     <<"s","s","a">>,
     <<"o","p","m">>,
     <<"n","r","c">>,
     <<"f","c","c">> >>

\* fpds_query_helper.py:142
ServiceLabel ==
  <<"S","E","R","V","I","C","E","/","O","P","P","O","R","T","U","N","I","T","Y"," ","S","E","A","R","C","H",":"," ","T","h","i","s"," ","q","u","e","r","y"," ","i","s"," ","l","o","o","k","i","n","g"," ","f","o","r"," ","s","p","e","c","i","f","i","c"," ","s","e","r","v","i","c","e","s"," ","o","r"," ","o","p","p","o","r","t","u","n","i","t","i","e","s",".">>

\* fpds_query_helper.py:146
SetAsideLabel ==
  <<"S","E","T","-","A","S","I","D","E"," ","S","E","A","R","C","H",":"," ","T","h","i","s"," ","q","u","e","r","y"," ","i","n","v","o","l","v","e","s"," ","b","u","s","i","n","e","s","s"," ","s","e","t","-","a","s","i","d","e"," ","r","e","q","u","i","r","e","m","e","n","t","s",".">>

\* fpds_query_helper.py:150
AgencyLabel ==
  <<"A","G","E","N","C","Y"," ","S","E","A","R","C","H",":"," ","T","h","i","s"," ","q","u","e","r","y"," ","i","n","v","o","l","v","e","s"," ","s","p","e","c","i","f","i","c"," ","f","e","d","e","r","a","l"," ","a","g","e","n","c","i","e","s",".">>

\* fpds_query_helper.py:154
VendorLabel ==
  <<"V","E","N","D","O","R"," ","S","E","A","R","C","H",":"," ","T","h","i","s"," ","q","u","e","r","y"," ","i","n","v","o","l","v","e","s"," ","s","p","e","c","i","f","i","c"," ","v","e","n","d","o","r","s"," ","o","r"," ","c","o","n","t","r","a","c","t","o","r","s",".">>

\* fpds_query_helper.py:158
DateLabel ==
  <<"D","A","T","E"," ","S","E","A","R","C","H",":"," ","T","h","i","s"," ","q","u","e","r","y"," ","i","n","v","o","l","v","e","s"," ","t","i","m","e","-","b","a","s","e","d"," ","f","i","l","t","e","r","i","n","g",".">>

\* fpds_query_helper.py:162
AmountLabel ==
  <<"A","M","O","U","N","T"," ","S","E","A","R","C","H",":"," ","T","h","i","s"," ","q","u","e","r","y"," ","i","n","v","o","l","v","e","s"," ","f","i","n","a","n","c","i","a","l"," ","v","a","l","u","e"," ","f","i","l","t","e","r","i","n","g",".">>

ContextPrefix ==
  <<"\n","\n","C","O","N","T","E","X","T",":"," ">>

LabelSeparator ==
  <<";"," ">>

FilterWord == <<"f","i","l","t","e","r">>

ParseFailedText == <<"F","a","i","l","e","d"," ","t","o"," ","p","a","r","s","e"," ","r","e","s","p","o","n","s","e">>

InvalidFilterText == <<"F","a","i","l","e","d"," ","t","o"," ","p","a","r","s","e"," ","L","L","M"," ","r","e","s","p","o","n","s","e">>

Text8A == <<"8","A">>

TextNasa == <<"N","A","S","A">>

TextDay == <<"2","0","2","5","-","0","7","-","0","1">>

TextBadDay == <<"2","0","2","5","-","1","3","-","0","1">>

TextStamp == <<"2","0","2","5","-","0","7","-","0","1","T","0","0",":","0","0",":","0","0",".","0","0","0","Z">>

TextExplanation == <<"s","e","t","-","a","s","i","d","e"," ","f","i","l","t","e","r">>

TextNoFilter == <<"n","o"," ","f","i","l","t","e","r"," ","h","e","r","e">>

Question8A == <<"8","A"," ","a","w","a","r","d","s">>

QuestionNavy == <<"N","a","v","y"," ","I","T">>

QuestionPlain == <<"h","e","l","l","o">>

QuestionSetAside == <<"s","e","t"," ","a","s","i","d","e"," ","$">>

\* ------------------------------------------------------------------------
\* Intent detection and field suggestions
\* ------------------------------------------------------------------------
\* labels appended by a chain of if/elif: only the first intent that matches
enhanced_parts_first_match(query) ==
  LET query_lower == Lower(query) IN
    IF AnyTermIn(service_intent_terms, query_lower) THEN <<ServiceLabel>>
    ELSE IF AnyTermIn(set_aside_intent_terms, query_lower) THEN <<SetAsideLabel>>
    ELSE IF AnyTermIn(agency_intent_terms, query_lower) THEN <<AgencyLabel>>
    ELSE IF AnyTermIn(vendor_intent_terms, query_lower) THEN <<VendorLabel>>
    ELSE IF AnyTermIn(date_intent_terms, query_lower) THEN <<DateLabel>>
    ELSE IF AnyTermIn(amount_intent_terms, query_lower) THEN <<AmountLabel>>
    ELSE <<>>

\* FPDSQueryHelper._enhance_query_understanding: the labels appended, in
\* the order of the six tests
enhanced_parts(query) ==
  LET query_lower == Lower(query) IN
    (IF AnyTermIn(service_intent_terms, query_lower) THEN <<ServiceLabel>> ELSE <<>>)
    \o (IF AnyTermIn(set_aside_intent_terms, query_lower) THEN <<SetAsideLabel>> ELSE <<>>)
    \o (IF AnyTermIn(agency_intent_terms, query_lower) THEN <<AgencyLabel>> ELSE <<>>)
    \o (IF AnyTermIn(vendor_intent_terms, query_lower) THEN <<VendorLabel>> ELSE <<>>)
    \o (IF AnyTermIn(date_intent_terms, query_lower) THEN <<DateLabel>> ELSE <<>>)
    \o (IF AnyTermIn(amount_intent_terms, query_lower) THEN <<AmountLabel>> ELSE <<>>)

\* an enhancement that keeps the lower-cased query instead of the query
enhance_query_understanding_lowered(query) ==
  IF Len(enhanced_parts(query)) > 0
  THEN Lower(query) \o ContextPrefix \o Join(LabelSeparator, enhanced_parts(query))
  ELSE Lower(query)

\* FPDSQueryHelper._enhance_query_understanding
enhance_query_understanding(query) ==
  IF Len(enhanced_parts(query)) > 0
  THEN query \o ContextPrefix \o Join(LabelSeparator, enhanced_parts(query))
  ELSE query

\* FPDSQueryHelper._get_service_search_fields
get_service_search_fields ==
  << "productservice_code_product_or_service_code_description",
     "nature_of_services",
     "principal_naics_code_north_american_industry_classification_system_description",
     "description_of_requirement",
     "productservice_code_product_or_service_code",
     "principal_naics_code_principal_north_american_industry_classification_system_code",
     "bundled_contract",
     "dod_acquisition_program_dod_acquisition_program",
     "dod_acquisition_program_programsystem_or_equipment_code_description",
     "information_technology_commercial_category",
     "claimant_program_code_claimant_program_code_description" >>

\* A set-aside list without the business-size, SBIR and fair-opportunity
\* fields (the list of PromptHelper in services/utils.py)
RestrictedSetAsideFields ==
  << "type_of_set_aside",
     "idv_type_of_set_aside_idv_type_of_set_aside",
     "type_of_set_aside_source_type_of_set_aside_source",
     "local_area_set_aside" >>

\* FPDSQueryHelper._get_set_aside_search_fields, the method the endpoint uses
get_set_aside_search_fields ==
  << "type_of_set_aside",
     "idv_type_of_set_aside_idv_type_of_set_aside",
     "contracting_officers_business_size_selection",
     "type_of_set_aside_source_type_of_set_aside_source",
     "sbirsttr",
     "fair_opportunitylimited_sources",
     "local_area_set_aside" >>

\* the agency list written out in _get_query_specific_fields
agency_fields ==
  << "contracting_office_agency_id_contracting_office_agency_id",
     "contracting_office_agency_id_contracting_office_agency_name",
     "contracting_office_id_contracting_office_id",
     "contracting_office_id_contracting_office_name",
     "funding_agency_id_funding_or_requesting_agency_id",
     "funding_agency_id_funding_or_requesting_agency_name",
     "funding_office_id_funding_or_requesting_office_id",
     "funding_office_id_funding_or_requesting_office_name" >>

\* FPDSQueryHelper._get_query_specific_fields: the suggestions dictionary as
\* the sequence of its (key, list) entries in insertion order
get_query_specific_fields(query) ==
  LET query_lower == Lower(query) IN
    (IF AnyTermIn(service_terms, query_lower)
     THEN << [field_type |-> "service_fields", fields |-> get_service_search_fields] >>
     ELSE <<>>)
    \o (IF AnyTermIn(set_aside_terms, query_lower)
        THEN << [field_type |-> "set_aside_fields", fields |-> get_set_aside_search_fields] >>
        ELSE <<>>)
    \o (IF AnyTermIn(agency_terms, query_lower)
        THEN << [field_type |-> "agency_fields", fields |-> agency_fields] >>
        ELSE <<>>)

\* FPDSQueryHelper._create_query_parsing_prompt: the parts of the prompt
\* text that depend on the query or on a field list
create_query_parsing_prompt(query) ==
  [ query             |-> query,
    field_suggestions |-> get_query_specific_fields(query),
    service_strategy  |-> get_service_search_fields,
    set_aside_strategy |-> get_set_aside_search_fields ]

\* ------------------------------------------------------------------------
\* JSON values (the parsed model reply, filters, documents)
\*   t = "null" | "num" | "str" | "dict" | "list" | "datetime"
\*   s : the text of a str (or the text a datetime was parsed from)
\*   n : the value of a num
\*   items : the entries [k, v] of a dict in order; of a list with k = ""
\* ------------------------------------------------------------------------
JNull == [t |-> "null", s |-> <<>>, n |-> 0, items |-> <<>>]

JNum(n) == [t |-> "num", s |-> <<>>, n |-> n, items |-> <<>>]

JStr(s) == [t |-> "str", s |-> s, n |-> 0, items |-> <<>>]

JDate(s) == [t |-> "datetime", s |-> s, n |-> 0, items |-> <<>>]

JDict(items) == [t |-> "dict", s |-> <<>>, n |-> 0, items |-> items]

JList(values) ==
  [t |-> "list", s |-> <<>>, n |-> 0,
   items |-> [i \in 1..Len(values) |-> [k |-> "", v |-> values[i]]]]

KV(k, v) == [k |-> k, v |-> v]

EmptyDict == JDict(<<>>)

\* key in d, for a dict d
HasKey(d, key) == \E i \in 1..Len(d.items) : d.items[i].k = key

\* d[key]: the value of the last entry with that key
GetKey(d, key) ==
  d.items[CHOOSE i \in 1..Len(d.items) :
            /\ d.items[i].k = key
            /\ \A j \in (i + 1)..Len(d.items) : d.items[j].k # key].v

\* d.get(key, default)
DictGet(d, key, default) == IF HasKey(d, key) THEN GetKey(d, key) ELSE default

\* Python truthiness of a value
Truthy(v) ==
  CASE v.t = "null" -> FALSE
    [] v.t = "num" -> v.n # 0
    [] v.t = "str" -> Len(v.s) > 0
    [] v.t \in {"dict", "list"} -> Len(v.items) > 0
    [] OTHER -> TRUE

\* every dictionary key of a value, at any depth
RECURSIVE KeysOf(_)
KeysOf(v) ==
  IF v.t \in {"dict", "list"}
  THEN UNION { (IF v.t = "dict" THEN {v.items[i].k} ELSE {}) \cup KeysOf(v.items[i].v) :
               i \in 1..Len(v.items) }
  ELSE {}

\* ------------------------------------------------------------------------
\* Date strings
\* ------------------------------------------------------------------------
Digits == <<"0","1","2","3","4","5","6","7","8","9">>

IsDigit(c) == \E i \in 1..10 : Digits[i] = c

DigitVal(c) == (CHOOSE i \in 1..10 : Digits[i] = c) - 1

\* the number written by the digits s[i..j]
RECURSIVE NumAt(_, _, _)
NumAt(s, i, j) == IF j < i THEN 0 ELSE 10 * NumAt(s, i, j - 1) + DigitVal(s[j])

\* a pattern is a sequence of characters in which "#" stands for \d
MatchPat(s, pat) ==
  /\ Len(s) = Len(pat)
  /\ \A i \in 1..Len(pat) : IF pat[i] = "#" THEN IsDigit(s[i]) ELSE s[i] = pat[i]

\* re.match of a pattern ending in $: $ also matches before a final newline
MatchDollar(s, pat) ==
  \/ MatchPat(s, pat)
  \/ /\ Len(s) > 0
     /\ s[Len(s)] = "\n"
     /\ MatchPat(SubSeq(s, 1, Len(s) - 1), pat)

DayPat == <<"#","#","#","#","-","#","#","-","#","#">>

TimePat == DayPat \o <<"T","#","#",":","#","#",":","#","#">>

MillisPat == <<".","#","#","#">>

\* the strings of ^\d{4}-\d{2}-\d{2}T\d{2}:\d{2}:\d{2}(\.\d{3})?Z?$ without the $
TimePats ==
  { TimePat, TimePat \o <<"Z">>, TimePat \o MillisPat, TimePat \o MillisPat \o <<"Z">> }

\* FPDSQueryHelper._is_date_string
is_date_string(value) ==
  \/ MatchDollar(value, DayPat)
  \/ \E pat \in TimePats : MatchDollar(value, pat)

IsLeapYear(y) == (y % 4 = 0 /\ y % 100 # 0) \/ y % 400 = 0

DaysInMonth(y, m) ==
  IF m = 2 THEN (IF IsLeapYear(y) THEN 29 ELSE 28)
  ELSE IF m \in {4, 6, 9, 11} THEN 30 ELSE 31

\* a parser that accepts every string of the date patterns
fromisoformat_unchecked(value) == Len(value) > 0

\* datetime.fromisoformat(value.replace('Z', '+00:00')) returns (does not
\* raise ValueError), for a value that is_date_string accepted
fromisoformat_ok(value) ==
  /\ value[Len(value)] # "\n"
  /\ LET y == NumAt(value, 1, 4)
         m == NumAt(value, 6, 7)
         d == NumAt(value, 9, 10)
     IN /\ y >= 1
        /\ m \in 1..12
        /\ d \in 1..DaysInMonth(y, m)
  /\ Len(value) > 10 =>
       /\ NumAt(value, 12, 13) \in 0..23
       /\ NumAt(value, 15, 16) \in 0..59
       /\ NumAt(value, 18, 19) \in 0..59

\* convert_value inside FPDSQueryHelper._convert_string_dates_to_isodate
RECURSIVE convert_value(_)
convert_value(value) ==
  IF value.t \in {"dict", "list"}
  THEN [value EXCEPT !.items =
          [i \in 1..Len(value.items) |->
             [k |-> value.items[i].k, v |-> convert_value(value.items[i].v)]]]
  ELSE IF value.t = "str" /\ is_date_string(value.s)
  THEN (IF fromisoformat_ok(value.s) THEN JDate(value.s) ELSE value)
  ELSE value

\* FPDSQueryHelper._convert_string_dates_to_isodate
convert_string_dates_to_isodate(filter_dict) == convert_value(filter_dict)

\* ------------------------------------------------------------------------
\* The helpers of services/utils.py
\* ------------------------------------------------------------------------
\* utils.py:140
utils_get_service_search_fields ==
  << "productservice_code_product_or_service_code_description",
     "nature_of_services",
     "principal_naics_code_north_american_industry_classification_system_description",
     "description_of_requirement",
     "productservice_code_product_or_service_code",
     "principal_naics_code_principal_north_american_industry_classification_system_code",
     "bundled_contract",
     "dod_acquisition_program_dod_acquisition_program",
     "dod_acquisition_program_programsystem_or_equipment_code_description",
     "information_technology_commercial_category",
     "claimant_program_code_claimant_program_code_description" >>

\* utils.py: enhance_query_understanding
utils_enhance_query_understanding(query) ==
  LET
    \* utils.py:53
    utils_service_intent_terms ==
      << <<"o","p","p","o","r","t","u","n","i","t","y">>,
         <<"s","e","r","v","i","c","e">>,
         <<"c","y","b","e","r","s","e","c","u","r","i","t","y">>,
         <<"i","t">>,
         <<"c","o","n","s","t","r","u","c","t","i","o","n">>,
         <<"m","a","i","n","t","e","n","a","n","c","e">>,
         <<"c","o","n","s","u","l","t","i","n","g">>,
         <<"t","r","a","i","n","i","n","g">>,
         <<"r","e","s","e","a","r","c","h">>,
         <<"s","o","f","t","w","a","r","e">>,
         <<"h","a","r","d","w","a","r","e">>,
         <<"s","u","p","p","l","i","e","s">>,
         <<"s","e","c","u","r","i","t","y">>,
         <<"m","e","d","i","c","a","l">> >>
    \* utils.py:55
    utils_ServiceLabel ==
      <<"S","E","R","V","I","C","E","/","O","P","P","O","R","T","U","N","I","T","Y"," ","S","E","A","R","C","H",":"," ","T","h","i","s"," ","q","u","e","r","y"," ","i","s"," ","l","o","o","k","i","n","g"," ","f","o","r"," ","s","p","e","c","i","f","i","c"," ","s","e","r","v","i","c","e","s"," ","o","r"," ","o","p","p","o","r","t","u","n","i","t","i","e","s",".">>
    \* utils.py:58
    utils_set_aside_intent_terms ==
      << <<"8","a">>,
         <<"s","m","a","l","l"," ","b","u","s","i","n","e","s","s">>,
         <<"w","o","m","e","n"," ","o","w","n","e","d">>,
         <<"v","e","t","e","r","a","n"," ","o","w","n","e","d">>,
         <<"m","i","n","o","r","i","t","y"," ","o","w","n","e","d">>,
         <<"d","i","s","a","d","v","a","n","t","a","g","e","d">>,
         <<"h","u","b","z","o","n","e">>,
         <<"s","e","t"," ","a","s","i","d","e">>,
         <<"s","e","t","-","a","s","i","d","e">> >>
    \* utils.py:59
    utils_SetAsideLabel ==
      <<"S","E","T","-","A","S","I","D","E"," ","S","E","A","R","C","H",":"," ","T","h","i","s"," ","q","u","e","r","y"," ","i","n","v","o","l","v","e","s"," ","b","u","s","i","n","e","s","s"," ","s","e","t","-","a","s","i","d","e"," ","r","e","q","u","i","r","e","m","e","n","t","s",".">>
    \* utils.py:62
    utils_agency_intent_terms ==
      << <<"n","a","s","a">>,
         <<"d","o","d">>,
         <<"n","a","v","y">>,
         <<"a","r","m","y">>,
         <<"a","i","r"," ","f","o","r","c","e">>,
         <<"d","e","f","e","n","s","e">>,
         <<"h","o","m","e","l","a","n","d"," ","s","e","c","u","r","i","t","y">>,
         <<"e","n","e","r","g","y">>,
         <<"h","e","a","l","t","h">>,
         <<"t","r","e","a","s","u","r","y">>,
         <<"i","n","t","e","r","i","o","r">>,
         <<"a","g","r","i","c","u","l","t","u","r","e">>,
         <<"c","o","m","m","e","r","c","e">>,
         <<"l","a","b","o","r">>,
         <<"t","r","a","n","s","p","o","r","t","a","t","i","o","n">>,
         <<"e","d","u","c","a","t","i","o","n">>,
         <<"v","e","t","e","r","a","n","s">>,
         <<"j","u","s","t","i","c","e">>,
         <<"s","t","a","t","e">>,
         <<"e","p","a">>,
         <<"g","s","a">>,
         <<"s","s","a">>,
         <<"o","p","m">>,
         <<"n","r","c">>,
         <<"f","c","c">> >>
    \* utils.py:63
    utils_AgencyLabel ==
      <<"A","G","E","N","C","Y"," ","S","E","A","R","C","H",":"," ","T","h","i","s"," ","q","u","e","r","y"," ","i","n","v","o","l","v","e","s"," ","s","p","e","c","i","f","i","c"," ","f","e","d","e","r","a","l"," ","a","g","e","n","c","i","e","s",".">>
    \* utils.py:66
    utils_vendor_intent_terms ==
      << <<"b","o","o","z"," ","a","l","l","e","n">>,
         <<"b","o","e","i","n","g">>,
         <<"l","o","c","k","h","e","e","d">>,
         <<"r","a","y","t","h","e","o","n">>,
         <<"n","o","r","t","h","r","o","p">>,
         <<"g","e","n","e","r","a","l"," ","d","y","n","a","m","i","c","s">>,
         <<"c","o","m","p","a","n","y">>,
         <<"v","e","n","d","o","r">>,
         <<"c","o","n","t","r","a","c","t","o","r">> >>
    \* utils.py:67
    utils_VendorLabel ==
      <<"V","E","N","D","O","R"," ","S","E","A","R","C","H",":"," ","T","h","i","s"," ","q","u","e","r","y"," ","i","n","v","o","l","v","e","s"," ","s","p","e","c","i","f","i","c"," ","v","e","n","d","o","r","s"," ","o","r"," ","c","o","n","t","r","a","c","t","o","r","s",".">>
    \* utils.py:70
    utils_date_intent_terms ==
      << <<"e","x","p","i","r","i","n","g">>,
         <<"e","x","p","i","r","e","d">>,
         <<"a","c","t","i","v","e">>,
         <<"r","e","c","e","n","t">>,
         <<"o","l","d">>,
         <<"t","h","i","s"," ","y","e","a","r">>,
         <<"l","a","s","t"," ","y","e","a","r">>,
         <<"n","e","x","t"," ","y","e","a","r">>,
         <<"2","0","2","4">>,
         <<"2","0","2","5">>,
         <<"2","0","2","6">> >>
    \* utils.py:71
    utils_DateLabel ==
      <<"D","A","T","E"," ","S","E","A","R","C","H",":"," ","T","h","i","s"," ","q","u","e","r","y"," ","i","n","v","o","l","v","e","s"," ","t","i","m","e","-","b","a","s","e","d"," ","f","i","l","t","e","r","i","n","g",".">>
    \* utils.py:74
    utils_amount_intent_terms ==
      << <<"l","a","r","g","e">>,
         <<"s","m","a","l","l">>,
         <<"m","i","l","l","i","o","n">>,
         <<"b","i","l","l","i","o","n">>,
         <<"t","h","o","u","s","a","n","d">>,
         <<"h","i","g","h"," ","v","a","l","u","e">>,
         <<"l","o","w"," ","v","a","l","u","e">>,
         <<"$">>,
         <<"a","m","o","u","n","t">>,
         <<"v","a","l","u","e">> >>
    \* utils.py:75
    utils_AmountLabel ==
      <<"A","M","O","U","N","T"," ","S","E","A","R","C","H",":"," ","T","h","i","s"," ","q","u","e","r","y"," ","i","n","v","o","l","v","e","s"," ","f","i","n","a","n","c","i","a","l"," ","v","a","l","u","e"," ","f","i","l","t","e","r","i","n","g",".">>
    \* utils.py:80
    utils_ContextPrefix ==
      <<"\n","\n","C","O","N","T","E","X","T",":"," ">>
    \* utils.py:80
    utils_LabelSeparator ==
      <<";"," ">>
    \* utils.py: enhance_query_understanding, the labels appended
    utils_enhanced_parts ==
      LET query_lower == Lower(query) IN
        (IF AnyTermIn(utils_service_intent_terms, query_lower) THEN <<utils_ServiceLabel>> ELSE <<>>)
        \o (IF AnyTermIn(utils_set_aside_intent_terms, query_lower) THEN <<utils_SetAsideLabel>> ELSE <<>>)
        \o (IF AnyTermIn(utils_agency_intent_terms, query_lower) THEN <<utils_AgencyLabel>> ELSE <<>>)
        \o (IF AnyTermIn(utils_vendor_intent_terms, query_lower) THEN <<utils_VendorLabel>> ELSE <<>>)
        \o (IF AnyTermIn(utils_date_intent_terms, query_lower) THEN <<utils_DateLabel>> ELSE <<>>)
        \o (IF AnyTermIn(utils_amount_intent_terms, query_lower) THEN <<utils_AmountLabel>> ELSE <<>>)
  IN
    IF Len(utils_enhanced_parts) > 0
    THEN query \o utils_ContextPrefix \o Join(utils_LabelSeparator, utils_enhanced_parts)
    ELSE query

\* utils.py: is_date_string (the two patterns are the patterns of
\* FPDSQueryHelper._is_date_string)
utils_is_date_string(value) ==
  \/ MatchDollar(value, DayPat)
  \/ \E pat \in TimePats : MatchDollar(value, pat)

\* utils.py: convert_value inside convert_string_dates_to_isodate
RECURSIVE utils_convert_value(_)
utils_convert_value(value) ==
  IF value.t \in {"dict", "list"}
  THEN [value EXCEPT !.items =
          [i \in 1..Len(value.items) |->
             [k |-> value.items[i].k, v |-> utils_convert_value(value.items[i].v)]]]
  ELSE IF value.t = "str" /\ utils_is_date_string(value.s)
  THEN (IF fromisoformat_ok(value.s) THEN JDate(value.s) ELSE value)
  ELSE value

\* utils.py: convert_string_dates_to_isodate
utils_convert_string_dates_to_isodate(filter_dict) == utils_convert_value(filter_dict)

\* utils.py: PromptHelper._get_query_specific_fields
utils_get_query_specific_fields(query) ==
  LET
    \* utils.py:175
    utils_service_terms ==
      << <<"c","y","b","e","r","s","e","c","u","r","i","t","y">>,
         <<"i","t">>,
         <<"c","o","m","p","u","t","e","r">>,
         <<"s","o","f","t","w","a","r","e">>,
         <<"h","a","r","d","w","a","r","e">>,
         <<"c","o","n","s","t","r","u","c","t","i","o","n">>,
         <<"m","a","i","n","t","e","n","a","n","c","e">>,
         <<"c","o","n","s","u","l","t","i","n","g">>,
         <<"t","r","a","i","n","i","n","g">>,
         <<"r","e","s","e","a","r","c","h">>,
         <<"s","e","c","u","r","i","t","y">>,
         <<"m","e","d","i","c","a","l">>,
         <<"h","e","a","l","t","h","c","a","r","e">> >>
    \* utils.py:181
    utils_set_aside_terms ==
      << <<"8","a">>,
         <<"s","m","a","l","l"," ","b","u","s","i","n","e","s","s">>,
         <<"w","o","m","e","n"," ","o","w","n","e","d">>,
         <<"v","e","t","e","r","a","n"," ","o","w","n","e","d">>,
         <<"m","i","n","o","r","i","t","y"," ","o","w","n","e","d">>,
         <<"d","i","s","a","d","v","a","n","t","a","g","e","d">>,
         <<"h","u","b","z","o","n","e">>,
         <<"s","e","t"," ","a","s","i","d","e">>,
         <<"s","e","t","-","a","s","i","d","e">> >>
    \* utils.py:187
    utils_agency_terms ==
      << <<"n","a","s","a">>,
         <<"d","o","d">>,
         <<"n","a","v","y">>,
         <<"a","r","m","y">>,
         <<"a","i","r"," ","f","o","r","c","e">>,
         <<"d","e","f","e","n","s","e">>,
         <<"h","o","m","e","l","a","n","d"," ","s","e","c","u","r","i","t","y">>,
         <<"e","n","e","r","g","y">>,
         <<"h","e","a","l","t","h">>,
         <<"t","r","e","a","s","u","r","y">>,
         <<"i","n","t","e","r","i","o","r">>,
         <<"a","g","r","i","c","u","l","t","u","r","e">>,
         <<"c","o","m","m","e","r","c","e">>,
         <<"l","a","b","o","r">>,
         <<"t","r","a","n","s","p","o","r","t","a","t","i","o","n">>,
         <<"e","d","u","c","a","t","i","o","n">>,
         <<"v","e","t","e","r","a","n","s">>,
         <<"j","u","s","t","i","c","e">>,
         <<"s","t","a","t","e">>,
         <<"e","p","a">>,
         <<"g","s","a">>,
         <<"s","s","a">>,
         <<"o","p","m">>,
         <<"n","r","c">>,
         <<"f","c","c">> >>
    \* utils.py:191
    utils_agency_fields ==
      << "contracting_office_agency_id_contracting_office_agency_id",
         "contracting_office_agency_id_contracting_office_agency_name",
         "contracting_office_id_contracting_office_id",
         "contracting_office_id_contracting_office_name",
         "funding_agency_id_funding_or_requesting_agency_id",
         "funding_agency_id_funding_or_requesting_agency_name",
         "funding_office_id_funding_or_requesting_office_id",
         "funding_office_id_funding_or_requesting_office_name" >>
  IN
    LET query_lower == Lower(query) IN
      (IF AnyTermIn(utils_service_terms, query_lower)
       THEN << [field_type |-> "service_fields", fields |-> utils_get_service_search_fields] >>
       ELSE <<>>)
      \o (IF AnyTermIn(utils_set_aside_terms, query_lower)
          THEN << [field_type |-> "set_aside_fields", fields |-> RestrictedSetAsideFields] >>
          ELSE <<>>)
      \o (IF AnyTermIn(utils_agency_terms, query_lower)
          THEN << [field_type |-> "agency_fields", fields |-> utils_agency_fields] >>
          ELSE <<>>)

\* ------------------------------------------------------------------------
\* The model's reply to the filter-generation call
\* ------------------------------------------------------------------------
\* A reply is the outcome of json.loads on the cleaned reply text: valid
\* says whether it parsed, value is what it parsed to.
Reply(valid, value) == [valid |-> valid, value |-> value]

\* the filter-generation call raised or was not made
NoReply == [received |-> FALSE, valid |-> FALSE, value |-> JNull]

\* the filter-generation call returned a reply
Received(reply) == [received |-> TRUE, valid |-> reply.valid, value |-> reply.value]

Regex(text) == JDict(<< KV("$regex", JStr(text)), KV("$options", JStr(<<"i">>)) >>)

SetAsideClause == JDict(<< KV("type_of_set_aside", Regex(Text8A)) >>)

BusinessSizeClause ==
  JDict(<< KV("contracting_officers_business_size_selection", Regex(Text8A)) >>)

DateClause(text) ==
  JDict(<< KV("date_signed_award_completion_date", JDict(<< KV("$gte", JStr(text)) >>)) >>)

\* filters the model can reply with
FilterPlain == SetAsideClause

FilterOr == JDict(<< KV("$or", JList(<< SetAsideClause, BusinessSizeClause >>)) >>)

FilterNested ==
  JDict(<< KV("$and", JList(<< JDict(<< KV("$nor", JList(<< FilterOr >>)) >>),
                              DateClause(TextDay) >>)) >>)

FilterDates ==
  JDict(<< KV("$and", JList(<< DateClause(TextStamp), DateClause(TextBadDay) >>)) >>)

Config(filter, more) == JDict(<< KV("filter", filter) >> \o more)

Replies ==
  { Reply(FALSE, JNull),
    Reply(TRUE, Config(EmptyDict, <<>>)),
    Reply(TRUE, Config(FilterPlain, << KV("explanation", JStr(TextExplanation)) >>)),
    Reply(TRUE, Config(FilterOr, << KV("limit", JNum(1)) >>)),
    Reply(TRUE, Config(FilterNested, << KV("limit", JNum(0)) >>)),
    Reply(TRUE, Config(FilterDates, << KV("limit", JNull), KV("sort", EmptyDict) >>)),
    Reply(TRUE, Config(JStr(Text8A), <<>>)),
    Reply(TRUE, Config(FilterPlain, << KV("sort", JStr(TextNasa)) >>)),
    Reply(TRUE, JDict(<< KV("limit", JNum(1)), KV("query", FilterOr) >>)),
    Reply(TRUE, JList(<< JStr(FilterWord) >>)),
    Reply(TRUE, JList(<<>>)),
    Reply(TRUE, JStr(FilterWord)),
    Reply(TRUE, JStr(TextNoFilter)),
    Reply(TRUE, JNum(7)),
    Reply(TRUE, JNull) }

\* "filter" in result raises TypeError: result is not a container
MembershipRaises(result) == result.t \in {"num", "null", "datetime"}

\* "filter" in result
FilterIn(result) ==
  CASE result.t = "dict" -> HasKey(result, "filter")
    [] result.t = "list" -> \E i \in 1..Len(result.items) : result.items[i].v = JStr(FilterWord)
    [] result.t = "str" -> Contains(result.s, FilterWord)
    [] OTHER -> FALSE

\* a parser that completes a reply without "filter" instead of replacing it
parse_llm_filter_response_completing(reply) ==
  IF ~reply.valid
  THEN [raises |-> FALSE,
        value |-> JDict(<< KV("filter", EmptyDict), KV("explanation", JStr(ParseFailedText)) >>)]
  ELSE IF MembershipRaises(reply.value)
  THEN [raises |-> TRUE, value |-> JNull]
  ELSE IF FilterIn(reply.value)
  THEN [raises |-> FALSE, value |-> reply.value]
  ELSE IF reply.value.t = "dict"
  THEN [raises |-> FALSE,
        value |-> JDict(reply.value.items
                          \o << KV("filter", EmptyDict),
                                KV("explanation", JStr(InvalidFilterText)) >>)]
  ELSE [raises |-> FALSE,
        value |-> JDict(<< KV("filter", EmptyDict), KV("explanation", JStr(InvalidFilterText)) >>)]

\* FPDSQueryHelper._parse_llm_filter_response: raises says that an
\* exception other than JSONDecodeError leaves the method
parse_llm_filter_response(reply) ==
  IF ~reply.valid
  THEN [raises |-> FALSE,
        value |-> JDict(<< KV("filter", EmptyDict), KV("explanation", JStr(ParseFailedText)) >>)]
  ELSE IF MembershipRaises(reply.value)
  THEN [raises |-> TRUE, value |-> JNull]
  ELSE IF FilterIn(reply.value)
  THEN [raises |-> FALSE, value |-> reply.value]
  ELSE [raises |-> FALSE,
        value |-> JDict(<< KV("filter", EmptyDict), KV("explanation", JStr(InvalidFilterText)) >>)]

\* ------------------------------------------------------------------------
\* The field catalogue and the alias dictionary of FPDSFieldMapper
\* ------------------------------------------------------------------------
\* one entry of the dictionary _create_field_mappings returns
Field(name, description, category, search_terms, data_type) ==
  [name |-> name, description |-> description, category |-> category,
   search_terms |-> search_terms, data_type |-> data_type]

\* one entry of the dictionary _create_search_aliases returns
Alias(key, terms) == [key |-> key, terms |-> terms]

\* FPDSFieldMapper._create_field_mappings: the entries of the award_id
\* category and three entries of other categories, in the order of the
\* dictionary
FieldMappings ==
  << \* fpds_field_mappings.py:22
     Field("award_type_display",
       <<"T","y","p","e"," ","o","f"," ","a","w","a","r","d"," ","(","e",".","g",".",","," ","D","e","l","i","v","e","r","y","/","T","a","s","k"," ","O","r","d","e","r",","," ","P","u","r","c","h","a","s","e"," ","O","r","d","e","r",")">>,
       <<"t","r","a","n","s","a","c","t","i","o","n">>,
       << <<"a","w","a","r","d"," ","t","y","p","e">>,
          <<"c","o","n","t","r","a","c","t"," ","t","y","p","e">>,
          <<"d","e","l","i","v","e","r","y"," ","o","r","d","e","r">>,
          <<"t","a","s","k"," ","o","r","d","e","r">>,
          <<"p","u","r","c","h","a","s","e"," ","o","r","d","e","r">>,
          <<"c","o","n","t","r","a","c","t"," ","a","w","a","r","d">> >>,
       "string"),
     \* fpds_field_mappings.py:79
     Field("award_id_agency_id",
       <<"A","g","e","n","c","y"," ","I","D"," ","f","o","r"," ","t","h","e"," ","a","w","a","r","d">>,
       <<"a","w","a","r","d","_","i","d">>,
       << <<"a","g","e","n","c","y"," ","i","d">>,
          <<"a","w","a","r","d"," ","a","g","e","n","c","y">>,
          <<"c","o","n","t","r","a","c","t","i","n","g"," ","a","g","e","n","c","y">> >>,
       "string"),
     \* fpds_field_mappings.py:85
     Field("award_id_procurement_identifier",
       <<"P","r","o","c","u","r","e","m","e","n","t"," ","i","d","e","n","t","i","f","i","e","r"," ","(","P","I","I","D",")">>,
       <<"a","w","a","r","d","_","i","d">>,
       << <<"p","r","o","c","u","r","e","m","e","n","t"," ","i","d">>,
          <<"p","i","i","d">>,
          <<"c","o","n","t","r","a","c","t"," ","n","u","m","b","e","r">>,
          <<"a","w","a","r","d"," ","n","u","m","b","e","r">> >>,
       "string"),
     \* fpds_field_mappings.py:91
     Field("award_id_modification_number",
       <<"M","o","d","i","f","i","c","a","t","i","o","n"," ","n","u","m","b","e","r"," ","f","o","r"," ","t","h","e"," ","a","w","a","r","d">>,
       <<"a","w","a","r","d","_","i","d">>,
       << <<"m","o","d","i","f","i","c","a","t","i","o","n">>,
          <<"m","o","d"," ","n","u","m","b","e","r">>,
          <<"c","o","n","t","r","a","c","t"," ","m","o","d","i","f","i","c","a","t","i","o","n">> >>,
       "string"),
     \* fpds_field_mappings.py:97
     Field("award_id_transaction_number",
       <<"T","r","a","n","s","a","c","t","i","o","n"," ","n","u","m","b","e","r">>,
       <<"a","w","a","r","d","_","i","d">>,
       << <<"t","r","a","n","s","a","c","t","i","o","n"," ","n","u","m","b","e","r">>,
          <<"t","r","a","n","s","a","c","t","i","o","n"," ","i","d">> >>,
       "string"),
     \* fpds_field_mappings.py:103
     Field("solicitation_id_solicitation_id",
       <<"S","o","l","i","c","i","t","a","t","i","o","n"," ","I","D"," ","f","o","r"," ","t","h","e"," ","a","w","a","r","d">>,
       <<"a","w","a","r","d","_","i","d">>,
       << <<"s","o","l","i","c","i","t","a","t","i","o","n"," ","i","d">>,
          <<"s","o","l","i","c","i","t","a","t","i","o","n">>,
          <<"b","i","d"," ","i","d">>,
          <<"r","e","q","u","e","s","t"," ","f","o","r"," ","p","r","o","p","o","s","a","l">> >>,
       "string"),
     \* fpds_field_mappings.py:188
     Field("contracting_office_agency_id_contracting_office_agency_name",
       <<"C","o","n","t","r","a","c","t","i","n","g"," ","o","f","f","i","c","e"," ","a","g","e","n","c","y"," ","n","a","m","e">>,
       <<"c","o","n","t","r","a","c","t","i","n","g","_","o","f","f","i","c","e">>,
       << <<"c","o","n","t","r","a","c","t","i","n","g"," ","o","f","f","i","c","e">>,
          <<"c","o","n","t","r","a","c","t","i","n","g"," ","a","g","e","n","c","y">>,
          <<"a","w","a","r","d","i","n","g"," ","a","g","e","n","c","y">> >>,
       "string"),
     \* fpds_field_mappings.py:362
     Field("type_of_set_aside",
       <<"T","y","p","e"," ","o","f"," ","s","e","t"," ","a","s","i","d","e">>,
       <<"c","o","m","p","e","t","i","t","i","o","n">>,
       << <<"s","e","t"," ","a","s","i","d","e">>,
          <<"s","m","a","l","l"," ","b","u","s","i","n","e","s","s">>,
          <<"8","a">>,
          <<"w","o","m","e","n"," ","o","w","n","e","d">> >>,
       "string") >>

\* FPDSFieldMapper._create_search_aliases: five of the entries, in the
\* order of the dictionary
SearchAliases ==
  << \* fpds_field_mappings.py:778
     Alias(<<"n","a","s","a">>,
       << <<"n","a","t","i","o","n","a","l"," ","a","e","r","o","n","a","u","t","i","c","s"," ","a","n","d"," ","s","p","a","c","e"," ","a","d","m","i","n","i","s","t","r","a","t","i","o","n">>,
          <<"n","a","s","a">> >>),
     \* fpds_field_mappings.py:779
     Alias(<<"n","a","v","y">>,
       << <<"d","e","p","a","r","t","m","e","n","t"," ","o","f"," ","t","h","e"," ","n","a","v","y">>,
          <<"n","a","v","y">>,
          <<"d","e","p","t"," ","o","f"," ","t","h","e"," ","n","a","v","y">>,
          <<"n","a","v","a","l">>,
          <<"n","a","v","f","a","c">> >>),
     \* fpds_field_mappings.py:780
     Alias(<<"a","r","m","y">>,
       << <<"d","e","p","a","r","t","m","e","n","t"," ","o","f"," ","t","h","e"," ","a","r","m","y">>,
          <<"a","r","m","y">>,
          <<"d","e","p","t"," ","o","f"," ","t","h","e"," ","a","r","m","y">>,
          <<"m","i","l","i","t","a","r","y">> >>),
     \* fpds_field_mappings.py:782
     Alias(<<"d","e","f","e","n","s","e">>,
       << <<"d","e","p","a","r","t","m","e","n","t"," ","o","f"," ","d","e","f","e","n","s","e">>,
          <<"d","o","d">>,
          <<"d","e","f","e","n","s","e">>,
          <<"m","i","l","i","t","a","r","y">>,
          <<"d","e","f","e","n","s","e"," ","d","e","p","a","r","t","m","e","n","t">> >>),
     \* fpds_field_mappings.py:901
     Alias(<<"d","a","t","a">>,
       << <<"d","a","t","a">>,
          <<"a","n","a","l","y","t","i","c","s">>,
          <<"b","i","g"," ","d","a","t","a">>,
          <<"i","n","f","o","r","m","a","t","i","o","n">>,
          <<"s","t","a","t","i","s","t","i","c","s">> >>) >>

\* ------------------------------------------------------------------------
\* Documents of the collection
\* ------------------------------------------------------------------------
Val(t, v) == [t |-> t, v |-> v]

AmountField == "action_obligation_total_obligation_amount"

\* FPDSFieldMapper.get_award_id_fields: the fields of category award_id
get_award_id_fields ==
  << "award_id_agency_id",
     "award_id_procurement_identifier",
     "award_id_modification_number",
     "award_id_transaction_number",
     "solicitation_id_solicitation_id" >>

\* the i-th document of the collection
Document(i) ==
  CASE i % 3 = 1 ->
         [f \in {"award_id_agency_id", "award_id_procurement_identifier", AmountField} |->
            IF f = AmountField THEN Val("num", "1000") ELSE Val("str", "A1")]
    [] i % 3 = 2 ->
         [f \in {"type_of_contract"} |-> Val("str", "IDIQ")]
    [] OTHER ->
         [f \in {"award_id_agency_id", AmountField} |->
            IF f = AmountField THEN Val("str", "$1,000") ELSE Val("str", "A3")]

\* a version that sets the award ID fields of every result, present or not
ensure_award_id_in_results_overwriting(results) ==
  [i \in 1..Len(results) |->
     [f \in DOMAIN results[i] \cup {get_award_id_fields[j] : j \in 1..Len(get_award_id_fields)} |->
        IF f \in {get_award_id_fields[j] : j \in 1..Len(get_award_id_fields)}
        THEN Val("str", "Not Available") ELSE results[i][f]]]

\* FPDSFieldMapper.ensure_award_id_in_results
ensure_award_id_in_results(results) ==
  [i \in 1..Len(results) |->
     [f \in DOMAIN results[i] \cup {get_award_id_fields[j] : j \in 1..Len(get_award_id_fields)} |->
        IF f \in DOMAIN results[i] THEN results[i][f] ELSE Val("str", "Not Available")]]

\* the documents with index in matching, in index order
RECURSIVE Matching(_, _)
Matching(matching, i) ==
  IF i > MaxDocs THEN <<>>
  ELSE (IF i \in matching THEN <<Document(i)>> ELSE <<>>) \o Matching(matching, i + 1)

\* what a find can match: any choice among the first MaxDocs documents, or
\* all the documents of a collection larger than the default limit
Selections ==
  { Matching(matching, 1) : matching \in SUBSET (1..MaxDocs) }
    \cup { [i \in 1..LargeCollection |-> Document(i)] }

\* the first n elements of a sequence (s[:n] for n >= 0)
Take(s, n) == SubSeq(s, 1, IF n < Len(s) THEN n ELSE Len(s))

\* FPDSQueryHelper._prepare_results_for_llm raises: float() or the format
\* code ,.0f meets an amount that is a string such as "$1,000"
prepare_results_raises(results) ==
  \E i \in 1..Len(results) :
    /\ AmountField \in DOMAIN results[i]
    /\ results[i][AmountField].t = "str"

\* a summary that has no fixed text for the empty list
prepare_results_for_llm_statistics(results) ==
  [text |-> "Statistics:", total_results |-> Len(results),
   samples |-> Len(Take(results, 20))]

\* FPDSQueryHelper._prepare_results_for_llm, when it returns: the fixed
\* text for an empty list, otherwise the statistics over the results and one
\* sample line for each of the first 20
prepare_results_for_llm(results) ==
  IF Len(results) = 0
  THEN [text |-> "No results found.", total_results |-> 0, samples |-> 0]
  ELSE [text |-> "Statistics:", total_results |-> Len(results),
        samples |-> Len(Take(results, 20))]

\* the formatting step has not built its prompt
NoFormatPrompt ==
  [built |-> FALSE, explanation |-> JNull, results_count |-> 0,
   results_summary |-> [text |-> "", total_results |-> 0, samples |-> 0]]

\* the parts of the prompt of _format_results_with_llm
FormatPrompt(results, filter_config) ==
  [built |-> TRUE,
   explanation |-> DictGet(filter_config, "explanation", JStr(<< "N", "/", "A" >>)),
   results_count |-> Len(results),
   results_summary |-> prepare_results_for_llm(results)]

\* ------------------------------------------------------------------------
\* Program constants
\* ------------------------------------------------------------------------
\* one more index than _create_indexes creates
NumIndexesPlusOne == 17

\* create_index calls of FPDSMongoDBService._create_indexes
NumIndexes == 16

\* default of filter_config.get("limit", 100)
DefaultLimit == 100

\* a default sort in ascending order
DefaultSortAscending == JDict(<< KV("date_signed_award_completion_date", JNum(1)) >>)

\* default of filter_config.get("sort", {"date_signed_award_completion_date": -1})
DefaultSort == JDict(<< KV("date_signed_award_completion_date", JNum(-1)) >>)

\* the questions requests are made with
Questions == { Question8A, QuestionNavy, QuestionPlain, QuestionSetAside }

\* ------------------------------------------------------------------------
\* Responses
\* ------------------------------------------------------------------------
NoText == [t |-> "absent", text |-> ""]

PyNone == [t |-> "null", text |-> ""]

Text(x) == [t |-> "str", text |-> x]

\* what _format_results_with_llm returns when the call raised: the except
\* block only logs, so the method falls off its end
format_failed == PyNone

\* the texts the formatting call can return
FormattedTexts == { "Summary A", "Summary B" }

NoResponse ==
  [status_code |-> 0, detail |-> "", description |-> "", results |-> NoText]

\* BaseResponseSchema(status_code=200, description=..., data={"results": ...})
OkResponse(formatted_response) ==
  [status_code |-> 200, detail |-> "", description |-> "return questions answer",
   results |-> formatted_response]

\* HTTPException(status_code=500, detail="Failed to process query")
FailedResponse ==
  [status_code |-> 500, detail |-> "Failed to process query", description |-> "",
   results |-> NoText]

\* the framework's answer to an exception that leaves the route function
UnhandledResponse ==
  [status_code |-> 500, detail |-> "Internal Server Error", description |-> "",
   results |-> NoText]

\* what FPDSQueryHelper.query hands to the route: keys are the keys of the
\* dictionary it returns
NoAnswer ==
  [kind |-> "none", keys |-> {}, formatted_response |-> NoText,
   results_count |-> 0, raw_results |-> <<>>]

\* the dictionary of the try block (it has the key mongo_filter)
ResultAnswer(formatted_response, results) ==
  [kind |-> "result",
   keys |-> {"query", "mongo_filter", "results_count", "formatted_response", "raw_results"},
   formatted_response |-> formatted_response,
   results_count |-> Len(results),
   raw_results |-> Take(results, 10)]

\* an except block whose dictionary has the keys of the try block
ErrorAnswerWithFilter ==
  [kind |-> "error",
   keys |-> {"error", "query", "mongo_filter", "results_count", "formatted_response", "raw_results"},
   formatted_response |-> Text("Error processing query"),
   results_count |-> 0, raw_results |-> <<>>]

\* the dictionary of the except block (no key mongo_filter, no key
\* raw_results)
ErrorAnswer ==
  [kind |-> "error", keys |-> {"error", "query", "results_count", "formatted_response"},
   formatted_response |-> Text("Error processing query"),
   results_count |-> 0, raw_results |-> <<>>]

\* an exception leaves query()
RaisedAnswer ==
  [kind |-> "raised", keys |-> {}, formatted_response |-> NoText,
   results_count |-> 0, raw_results |-> <<>>]

\* s[:n]
Slice(s, n) == IF n >= 0 THEN Take(s, n) ELSE Take(s, IF Len(s) + n > 0 THEN Len(s) + n ELSE 0)

\* FPDSQueryHelper.get_contracts_by_agency and the four methods like it,
\* after result = self.query(query): result['raw_results'] raises KeyError
\* when the dictionary has no such key
convenience_method(result, limit) ==
  IF "raw_results" \in result.keys
  THEN [raises |-> FALSE, value |-> [result EXCEPT !.raw_results = Slice(result.raw_results, limit)]]
  ELSE [raises |-> TRUE, value |-> result]

\* no library operation called yet
\* a request the server has not accepted
NoTask == [state |-> "absent", step |-> 0]

NoCall == [op |-> "", query |-> <<>>, argument |-> <<>>, result |-> <<>>, argument_after |-> <<>>]

\* ------------------------------------------------------------------------
\* State
\* ------------------------------------------------------------------------
VARIABLES
  pc,                 \* position of the request in progress
  question,           \* request.question
  openai_client,      \* helper.openai_client is not None
  calls,              \* external calls of the request in progress, in order
  prompt,             \* prompt of the filter-generation call
  mongo_filter,       \* filter configuration returned by _parse_query_to_filter
  find_filter,        \* argument of collection.find
  fetch_limit,        \* argument of cursor.limit, 0 when limit is not called
  results,            \* list returned by _execute_mongo_query
  answer,             \* value of query_helper.query(...)
  response,           \* last response of POST /query
  handled,            \* number of POST /query requests answered
  failures,           \* number of them answered with status 500
  faults,             \* what raised while the request in progress was handled
  health_response,    \* last response of GET /health
  health_after,       \* handled and failures when GET /health was last answered
  llm_reply,          \* reply of the filter-generation call
  fetch_sort,         \* argument of cursor.sort, null when sort is not called
  format_prompt,      \* what _format_results_with_llm puts into its prompt
  field_mappings,     \* FPDSFieldMapper.field_mappings
  search_aliases,     \* FPDSFieldMapper.search_aliases
  lib_call,           \* last call of a library operation, with its result
  tasks,              \* the coroutine of every POST /query the server accepted
  loop_task,          \* the request whose coroutine the event loop runs, or 0
  call_log            \* external calls of all requests, in the order made

\* the state of the request pipeline
server_vars ==
  << pc, question, openai_client, calls, prompt, mongo_filter, find_filter,
     fetch_limit, results, answer, response, handled, failures, faults,
     health_response, health_after, llm_reply, fetch_sort, format_prompt >>

\* the state of the field mapper and of the library operations
lib_vars == << field_mappings, search_aliases, lib_call >>

\* the state of the event loop
conc_vars == << tasks, loop_task, call_log >>

vars == << server_vars, lib_vars, conc_vars >>

\* no GET /health answered yet
NoHealth == [status |-> "", message |-> ""]

\* a health payload that reports the failures of earlier query requests
HealthPayloadOfFailures ==
  IF failures > 0
  THEN [status |-> "degraded", message |-> "FPDS API is running"]
  ELSE [status |-> "healthy", message |-> "FPDS API is running"]

\* the dictionary health_check returns
HealthPayload == [status |-> "healthy", message |-> "FPDS API is running"]

NoPrompt ==
  [query |-> <<>>, field_suggestions |-> <<>>, service_strategy |-> <<>>,
   set_aside_strategy |-> <<>>]

Init ==
  /\ pc = "idle"
  /\ question = <<>>
  /\ openai_client = FALSE
  /\ calls = <<>>
  /\ prompt = NoPrompt
  /\ mongo_filter = JNull
  /\ find_filter = JNull
  /\ fetch_limit = 0
  /\ results = <<>>
  /\ answer = NoAnswer
  /\ response = NoResponse
  /\ handled = 0
  /\ failures = 0
  /\ faults = {}
  /\ health_response = NoHealth
  /\ health_after = [handled |-> 0, failures |-> 0]
  /\ llm_reply = NoReply
  /\ fetch_sort = JNull
  /\ format_prompt = NoFormatPrompt
  /\ field_mappings = FieldMappings
  /\ search_aliases = SearchAliases
  /\ lib_call = NoCall
  /\ tasks = [r \in 1..MaxConcurrent |-> NoTask]
  /\ loop_task = 0
  /\ call_log = <<>>

\* n copies of a call name
Repeat(name, n) == [i \in 1..n |-> name]

\* the calls one step makes to an external service: one attempt, whether it
\* raises or not
AttemptsWithRetry(name, raised) == IF raised THEN << name, name >> ELSE << name >>

Attempts(name, raised) == << name >>

\* number of calls with a name in a call log
RECURSIVE Count(_, _)
Count(log, name) ==
  IF Len(log) = 0 THEN 0
  ELSE (IF Head(log) = name THEN 1 ELSE 0) + Count(Tail(log), name)

\* GET /health.  Both route functions are coroutines without an await, so
\* each runs to completion: a health check is answered between two query
\* requests, never in the middle of one.
health_check ==
  /\ pc = "idle"
  /\ health_response' = HealthPayload
  /\ health_after' = [handled |-> handled, failures |-> failures]
  /\ UNCHANGED << pc, question, openai_client, calls, prompt, mongo_filter,
                  find_filter, fetch_limit, results, answer, response, handled,
                  failures, faults, llm_reply, fetch_sort, format_prompt >>
  /\ UNCHANGED << lib_vars, conc_vars >>

\* POST /query arrives: the route function starts
Receive ==
  /\ pc = "idle"
  /\ handled < MaxRequests
  /\ \E q \in Questions : question' = q
  /\ pc' = "received"
  /\ openai_client' = FALSE
  /\ calls' = <<>>
  /\ prompt' = NoPrompt
  /\ mongo_filter' = JNull
  /\ find_filter' = JNull
  /\ fetch_limit' = 0
  /\ results' = <<>>
  /\ answer' = NoAnswer
  /\ faults' = {}
  /\ llm_reply' = NoReply
  /\ fetch_sort' = JNull
  /\ format_prompt' = NoFormatPrompt
  /\ UNCHANGED << response, handled, failures, health_response, health_after >>
  /\ UNCHANGED << lib_vars, conc_vars >>

\* the create_index call that raises: none (0), the first, one in the
\* middle or the last
IndexErrors == {0, 1, NumIndexes \div 2, NumIndexes}

\* FPDSQueryHelper(openai_api_key=...), before the try of the route:
\* MongoClient(...) may raise (an invalid connection string), the
\* create_index calls stop at the first one that raises, OpenAI(...) may raise
Construct ==
  /\ pc = "received"
  /\ \E mongo_client_ok \in BOOLEAN, index_error \in IndexErrors, client_ok \in BOOLEAN :
       IF ~mongo_client_ok
       THEN \* the exception leaves the route function
            /\ response' = UnhandledResponse
            /\ handled' = handled + 1
            /\ failures' = failures + 1
            /\ faults' = {"mongo_client"}
            /\ pc' = "idle"
            /\ UNCHANGED << openai_client, calls >>
       ELSE /\ calls' = Repeat("create_index", IF index_error = 0 THEN NumIndexes ELSE index_error)
            /\ openai_client' = client_ok
            /\ faults' = (IF index_error = 0 THEN {} ELSE {"create_index"})
                          \cup (IF client_ok THEN {} ELSE {"openai_client"})
            /\ pc' = "constructed"
            /\ UNCHANGED << response, handled, failures >>
  /\ UNCHANGED << question, prompt, mongo_filter, find_filter, fetch_limit,
                  results, answer, health_response, health_after, llm_reply,
                  fetch_sort, format_prompt >>
  /\ UNCHANGED << lib_vars, conc_vars >>

\* FPDSQueryHelper._parse_query_to_filter
ParseQueryToFilter ==
  /\ pc = "constructed"
  /\ prompt' = create_query_parsing_prompt(enhance_query_understanding(question))
  /\ IF ~openai_client
     THEN \* self.openai_client is None: AttributeError, caught
          /\ mongo_filter' = EmptyDict
          /\ faults' = faults \cup {"filter_call"}
          /\ llm_reply' = NoReply
          /\ UNCHANGED calls
     ELSE \/ \* the call raises
             /\ calls' = calls \o Attempts("llm_filter", TRUE)
             /\ mongo_filter' = EmptyDict
             /\ faults' = faults \cup {"filter_call"}
             /\ llm_reply' = NoReply
          \/ \E reply \in Replies :
               LET parsed == parse_llm_filter_response(reply) IN
                 /\ calls' = calls \o Attempts("llm_filter", FALSE)
                 /\ llm_reply' = Received(reply)
                 /\ mongo_filter' = IF parsed.raises THEN EmptyDict ELSE parsed.value
                 /\ faults' = faults \cup (IF ~reply.valid THEN {"filter_parse"}
                                           ELSE IF parsed.raises THEN {"filter_type"}
                                           ELSE {})
  /\ pc' = "parsed"
  /\ UNCHANGED << question, openai_client, find_filter, fetch_limit, results,
                  answer, response, handled, failures, health_response,
                  health_after, fetch_sort, format_prompt >>
  /\ UNCHANGED << lib_vars, conc_vars >>

\* a database step that reads the collection before the filter is known and
\* only hands the prefetched documents on afterwards
ExecuteMongoQueryEarly ==
  \/ /\ pc = "constructed"
     /\ Count(calls, "find") = 0
     /\ calls' = calls \o Attempts("find", FALSE)
     /\ find_filter' = EmptyDict
     /\ \E matching \in SUBSET (1..MaxDocs) :
          results' = ensure_award_id_in_results(Matching(matching, 1))
     /\ UNCHANGED << pc, question, openai_client, prompt, mongo_filter,
                     fetch_limit, answer, response, handled, failures, faults,
                     health_response, health_after, llm_reply, fetch_sort,
                     format_prompt >>
     /\ UNCHANGED << lib_vars, conc_vars >>
  \/ /\ pc = "parsed"
     /\ pc' = "executed"
     /\ UNCHANGED << question, openai_client, calls, prompt, mongo_filter,
                     find_filter, fetch_limit, results, answer, response,
                     handled, failures, faults, health_response, health_after,
                     llm_reply, fetch_sort, format_prompt >>
     /\ UNCHANGED << lib_vars, conc_vars >>

\* FPDSQueryHelper._execute_mongo_query
ExecuteMongoQuery ==
  /\ pc = "parsed"
  /\ IF mongo_filter.t # "dict"
     THEN \* filter_config.get raises AttributeError, caught: no driver call
          /\ results' = <<>>
          /\ faults' = faults \cup {"find"}
          /\ UNCHANGED << calls, find_filter, fetch_limit, fetch_sort >>
     ELSE LET filter_dict == convert_string_dates_to_isodate(
                               DictGet(mongo_filter, "filter", EmptyDict))
              sort_dict == DictGet(mongo_filter, "sort", DefaultSort)
              limit == DictGet(mongo_filter, "limit", JNum(DefaultLimit))
              \* find validates that the filter is a mapping or None
              find_raises == filter_dict.t \notin {"dict", "null"}
              \* sort_dict.items() needs a dictionary
              sort_raises == Truthy(sort_dict) /\ sort_dict.t # "dict"
              \* cursor.limit needs an integer
              limit_raises == Truthy(limit) /\ limit.t # "num"
              limited == Truthy(limit) /\ limit.t = "num"
          IN /\ find_filter' = filter_dict
             /\ fetch_sort' = IF ~find_raises /\ ~sort_raises /\ Truthy(sort_dict)
                              THEN sort_dict ELSE JNull
             /\ IF find_raises \/ sort_raises \/ limit_raises
                THEN /\ calls' = calls \o Attempts("find", TRUE)
                     /\ results' = <<>>
                     /\ fetch_limit' = 0
                     /\ faults' = faults \cup {"find"}
                ELSE /\ fetch_limit' = IF limited THEN limit.n ELSE 0
                     /\ \/ \* the driver raises while the cursor is read
                           /\ calls' = calls \o Attempts("find", TRUE)
                           /\ results' = <<>>
                           /\ faults' = faults \cup {"find"}
                        \/ \E matching \in Selections :
                             /\ calls' = calls \o Attempts("find", FALSE)
                             /\ results' = ensure_award_id_in_results(
                                             IF limited
                                             THEN Take(matching, limit.n)
                                             ELSE matching)
                             /\ UNCHANGED faults
  /\ pc' = "executed"
  /\ UNCHANGED << question, openai_client, prompt, mongo_filter, answer,
                  response, handled, failures, health_response, health_after,
                  llm_reply, format_prompt >>
  /\ UNCHANGED << lib_vars, conc_vars >>

\* FPDSQueryHelper._format_results_with_llm and the return of query():
\* an exception raised before the try of _format_results_with_llm reaches
\* the except block of query(); handler_ok = FALSE is that block raising
\* itself, so that the exception leaves query()
FormatResults ==
  /\ pc = "executed"
  /\ IF prepare_results_raises(results) \/ mongo_filter.t # "dict"
     THEN /\ \E handler_ok \in BOOLEAN :
               /\ answer' = IF handler_ok THEN ErrorAnswer ELSE RaisedAnswer
               /\ faults' = faults \cup {"prepare"}
                               \cup (IF handler_ok THEN {} ELSE {"handler"})
          /\ UNCHANGED << calls, format_prompt >>
     ELSE /\ format_prompt' = FormatPrompt(results, mongo_filter)
          /\ IF ~openai_client
             THEN \* AttributeError, caught and logged: the method returns None
                  /\ answer' = ResultAnswer(format_failed, results)
                  /\ faults' = faults \cup {"format_call"}
                  /\ UNCHANGED calls
             ELSE \/ \* the call raises: caught and logged, the method returns None
                     /\ calls' = calls \o Attempts("llm_format", TRUE)
                     /\ answer' = ResultAnswer(format_failed, results)
                     /\ faults' = faults \cup {"format_call"}
                  \/ \E text \in FormattedTexts :
                       /\ calls' = calls \o Attempts("llm_format", FALSE)
                       /\ answer' = ResultAnswer(Text(text), results)
                       /\ UNCHANGED faults
  /\ pc' = "returned"
  /\ UNCHANGED << question, openai_client, prompt, mongo_filter, find_filter,
                  fetch_limit, results, response, handled, failures,
                  health_response, health_after, llm_reply, fetch_sort >>
  /\ UNCHANGED << lib_vars, conc_vars >>

\* a route function whose except block answers 200 with the error text
route_response_swallowing(ans) ==
  IF ans.kind = "result"
  THEN OkResponse(ans.formatted_response)
  ELSE OkResponse(Text("Failed to process query"))

\* the route function after query_helper.query(...): lines 29-35
route_response(ans) ==
  IF ans.kind # "raised" /\ {"mongo_filter", "formatted_response"} \subseteq ans.keys
  THEN OkResponse(ans.formatted_response)
  ELSE \* the exception of query(), or KeyError: 'mongo_filter'
       FailedResponse

\* a route that keeps a count of failed requests and refuses to answer once
\* a request has failed
RespondAfterFailures ==
  /\ pc = "returned"
  /\ response' = IF failures > 0 THEN FailedResponse ELSE route_response(answer)
  /\ handled' = handled + 1
  /\ failures' = failures + (IF response'.status_code = 200 THEN 0 ELSE 1)
  /\ pc' = "idle"
  /\ UNCHANGED << question, openai_client, calls, prompt, mongo_filter,
                  find_filter, fetch_limit, results, answer, faults,
                  health_response, health_after, llm_reply, fetch_sort,
                  format_prompt >>
  /\ UNCHANGED << lib_vars, conc_vars >>

Respond ==
  /\ pc = "returned"
  /\ response' = route_response(answer)
  /\ handled' = handled + 1
  /\ failures' = failures + (IF response'.status_code = 200 THEN 0 ELSE 1)
  /\ pc' = "idle"
  /\ UNCHANGED << question, openai_client, calls, prompt, mongo_filter,
                  find_filter, fetch_limit, results, answer, faults,
                  health_response, health_after, llm_reply, fetch_sort,
                  format_prompt >>
  /\ UNCHANGED << lib_vars, conc_vars >>

Next ==
  \/ health_check
  \/ Receive
  \/ Construct
  \/ ParseQueryToFilter
  \/ ExecuteMongoQuery
  \/ FormatResults
  \/ Respond

Spec == Init /\ [][Next]_vars

\* ------------------------------------------------------------------------
\* Library operations: the mapper, the helpers and the storage methods,
\* called on their own
\* ------------------------------------------------------------------------
\* the texts the operations are called with
LibQueries ==
  { Question8A, QuestionNavy, QuestionPlain, QuestionSetAside,
    <<>>,
    <<"w","i","t","h">>,
    <<"g","o","l","d">>,
    <<"B","o","e","i","n","g"," ","2","0","2","5"," ","N","A","S","A">>,
    <<"a","g","e","n","c","y">>,
    <<"a","w","a","r","d","_","i","d">>,
    <<"N","A","S","A"," ","d","a","t","a">>,
    <<"P","I","I","D">>,
    <<"c","o","m","p","u","t","e","r">> }

DescriptionWord == <<"d","e","s","c","r","i","p","t","i","o","n">>

SearchTermPrefix == <<"s","e","a","r","c","h","_","t","e","r","m",":"," ">>

CategoryWord == <<"c","a","t","e","g","o","r","y">>

\* query_lower in term.lower() or term.lower() in query_lower
TermMatches(term, query_lower) ==
  Contains(Lower(term), query_lower) \/ Contains(query_lower, Lower(term))

\* the entries find_matching_fields appends to matched_terms for the search
\* terms of one field
RECURSIVE matched_search_terms(_, _)
matched_search_terms(terms, query_lower) ==
  IF Len(terms) = 0 THEN <<>>
  ELSE (IF TermMatches(Head(terms), query_lower)
        THEN << SearchTermPrefix \o Head(terms) >> ELSE <<>>)
       \o matched_search_terms(Tail(terms), query_lower)

\* the body of the loop of find_matching_fields for one field
field_match(field_info, query_lower) ==
  LET in_description == Contains(Lower(field_info.description), query_lower)
      terms == matched_search_terms(field_info.search_terms, query_lower)
      in_category == Contains(field_info.category, query_lower)
  IN [field_name |-> field_info.name,
      score |-> (IF in_description THEN 10 ELSE 0) + 5 * Len(terms)
                  + (IF in_category THEN 3 ELSE 0),
      matched_terms |-> (IF in_description THEN << DescriptionWord >> ELSE <<>>)
                          \o terms
                          \o (IF in_category THEN << CategoryWord >> ELSE <<>>),
      description |-> field_info.description,
      category |-> field_info.category,
      data_type |-> field_info.data_type]

\* a match put into a list sorted by score in ascending order
InsertByScoreAscending(sorted, match) ==
  LET before == Cardinality({ i \in 1..Len(sorted) : sorted[i].score <= match.score })
  IN SubSeq(sorted, 1, before) \o << match >> \o SubSeq(sorted, before + 1, Len(sorted))

\* a match put into a list sorted by score, after the matches whose score is
\* not smaller
InsertByScore(sorted, match) ==
  LET before == Cardinality({ i \in 1..Len(sorted) : sorted[i].score >= match.score })
  IN SubSeq(sorted, 1, before) \o << match >> \o SubSeq(sorted, before + 1, Len(sorted))

\* matches.sort(key=lambda x: x["score"], reverse=True): a stable sort
RECURSIVE sort_by_score(_)
sort_by_score(matches) ==
  IF Len(matches) = 0 THEN <<>>
  ELSE InsertByScore(sort_by_score(SubSeq(matches, 1, Len(matches) - 1)),
                     matches[Len(matches)])

\* FPDSFieldMapper.find_matching_fields
find_matching_fields(mappings, query) ==
  LET query_lower == Lower(query)
      all == [i \in 1..Len(mappings) |-> field_match(mappings[i], query_lower)]
      Scored(match) == match.score > 0
  IN sort_by_score(SelectSeq(all, Scored))

\* FPDSFieldMapper.expand_search_terms: list(set(...)), a list without
\* duplicates in no particular order
expand_search_terms(aliases, query) ==
  { Lower(query) }
    \cup UNION { { aliases[i].terms[j] : j \in 1..Len(aliases[i].terms) } :
                 i \in { k \in 1..Len(aliases) : Contains(Lower(query), aliases[k].key) } }

\* FPDSQueryHelper._get_field_info_for_llm: one line for each of the first
\* 80 fields
get_field_info_for_llm(mappings) ==
  Take([i \in 1..Len(mappings) |->
          [name |-> mappings[i].name, description |-> mappings[i].description,
           category |-> mappings[i].category]], 80)

\* FPDSMongoDBService.store_contract_data up to the insert: the document
\* with the two metadata fields
with_metadata(contract_data) ==
  [f \in DOMAIN contract_data \cup {"_created_at", "_updated_at"} |->
     IF f \in {"_created_at", "_updated_at"} THEN Val("datetime", "now")
     ELSE contract_data[f]]

\* the filters _convert_string_dates_to_isodate is called with
ConvertLeaves ==
  { JStr(TextDay), JStr(TextBadDay), JStr(TextStamp), JStr(TextNasa),
    JStr(<<"2","0","2","5","-","0","7","-","0","1">>\o <<"\n">>),
    JStr(<<"2","0","2","5","-","0","2","-","3","0">>),
    JStr(<<"2","0","2","4","-","0","2","-","2","9">>),
    JStr(<<"2","0","2","5","-","0","7","-","1">>),
    JStr(<<"2","0","2","5","-","0","7","-","0","1","T","2","5",":","0","0",":","0","0","Z">>),
    JStr(<<"2","0","2","5","-","0","7","-","0","1","T","0","0",":","0","0",":","0","0">>),
    JStr(<<"2","0","2","5","-","0","7","-","0","1","T","0","0",":","0","0",":","0","0",".","0","0","0">>),
    JStr(<<"2","0","2","5","-","0","7","-","0","1"," ","0","0",":","0","0",":","0","0">>),
    JStr(<<"0","0","0","0","-","0","1","-","0","1">>),
    JNum(20250701), JNull, JDate(TextDay) }

ConvertInputs ==
  ConvertLeaves
    \cup { JDict(<< KV("date_signed_date_signed",
                      JDict(<< KV("$gte", leaf), KV("$lte", JStr(TextStamp)) >>)) >>) :
           leaf \in ConvertLeaves }
    \cup { JList(<< leaf, JStr(TextNasa), JStr(TextDay) >>) : leaf \in ConvertLeaves }
    \cup { JDict(<< KV("$or", JList(<< JDict(<< KV("2025-07-01", leaf) >>),
                                       JDict(<< KV("dates", JList(<< leaf >>)) >>) >>)) >>) :
           leaf \in ConvertLeaves }
    \cup { EmptyDict, FilterDates, FilterNested }

\* the record of one call of a library operation
Call(op, query, argument, result, argument_after) ==
  [op |-> op, query |-> query, argument |-> argument, result |-> result,
   argument_after |-> argument_after]

FindMatchingFields ==
  /\ \E q \in LibQueries :
       lib_call' = Call("find_matching_fields", q, <<>>,
                        find_matching_fields(field_mappings, q), <<>>)
  /\ UNCHANGED << field_mappings, search_aliases >>
  /\ UNCHANGED << server_vars, conc_vars >>

\* an expansion that extends the alias list of the dictionary itself
ExpandSearchTermsInPlace ==
  /\ \E q \in LibQueries :
       /\ lib_call' = Call("expand_search_terms", q, <<>>,
                           expand_search_terms(search_aliases, q), <<>>)
       /\ search_aliases' =
            [i \in 1..Len(search_aliases) |->
               IF /\ Contains(Lower(q), search_aliases[i].key)
                  /\ \A j \in 1..Len(search_aliases[i].terms) :
                       search_aliases[i].terms[j] # Lower(q)
               THEN Alias(search_aliases[i].key, << Lower(q) >> \o search_aliases[i].terms)
               ELSE search_aliases[i]]
  /\ UNCHANGED field_mappings
  /\ UNCHANGED << server_vars, conc_vars >>

ExpandSearchTerms ==
  /\ \E q \in LibQueries :
       lib_call' = Call("expand_search_terms", q, <<>>,
                        expand_search_terms(search_aliases, q), <<>>)
  /\ UNCHANGED << field_mappings, search_aliases >>
  /\ UNCHANGED << server_vars, conc_vars >>

\* FPDSFieldMapper.ensure_award_id_in_results: the list it is given is the
\* list it returns, changed in place
EnsureAwardIdInResults ==
  /\ \E matching \in SUBSET (1..MaxDocs) :
       LET results_after == ensure_award_id_in_results(Matching(matching, 1))
       IN lib_call' = Call("ensure_award_id_in_results", <<>>, Matching(matching, 1),
                            results_after, results_after)
  /\ UNCHANGED << field_mappings, search_aliases >>
  /\ UNCHANGED << server_vars, conc_vars >>

\* the prompt-building steps that read the catalogue
GetFieldInfoForLlm ==
  /\ lib_call' = Call("get_field_info_for_llm", <<>>, <<>>,
                      get_field_info_for_llm(field_mappings), <<>>)
  /\ UNCHANGED << field_mappings, search_aliases >>
  /\ UNCHANGED << server_vars, conc_vars >>

EnhanceQueryUnderstanding ==
  /\ \E q \in LibQueries :
       lib_call' = Call("enhance_query_understanding", q, <<>>,
                        enhance_query_understanding(q), <<>>)
  /\ UNCHANGED << field_mappings, search_aliases >>
  /\ UNCHANGED << server_vars, conc_vars >>

\* FPDSQueryHelper._convert_string_dates_to_isodate: the comprehensions of
\* convert_value build new dictionaries and lists
ConvertStringDates ==
  /\ \E filter_dict \in ConvertInputs :
       lib_call' = Call("convert_string_dates_to_isodate", <<>>, filter_dict,
                        convert_string_dates_to_isodate(filter_dict), filter_dict)
  /\ UNCHANGED << field_mappings, search_aliases >>
  /\ UNCHANGED << server_vars, conc_vars >>

\* FPDSMongoDBService.store_contract_data: the metadata is written into the
\* dictionary of the caller, then insert_one returns or raises
StoreContractData ==
  /\ \E i \in 1..MaxDocs, inserted \in BOOLEAN :
       lib_call' = Call("store_contract_data", <<>>, << Document(i) >>,
                        [raises |-> ~inserted, stored |-> IF inserted THEN 1 ELSE 0],
                        << with_metadata(Document(i)) >>)
  /\ UNCHANGED << field_mappings, search_aliases >>
  /\ UNCHANGED << server_vars, conc_vars >>

\* FPDSMongoDBService.store_bulk_contracts
StoreBulkContracts ==
  /\ \E matching \in SUBSET (1..MaxDocs), inserted \in BOOLEAN :
       LET contracts == Matching(matching, 1)
       IN lib_call' = Call("store_bulk_contracts", <<>>, contracts,
                            [raises |-> ~inserted \/ Len(contracts) = 0,
                             stored |-> IF inserted THEN Len(contracts) ELSE 0],
                            [i \in 1..Len(contracts) |-> with_metadata(contracts[i])])
  /\ UNCHANGED << field_mappings, search_aliases >>
  /\ UNCHANGED << server_vars, conc_vars >>

\* FPDSQueryHelper._parse_query_to_filter up to the model call: the query
\* is enhanced and the prompt is built from the enhanced query
BuildQueryParsingPrompt ==
  /\ \E q \in LibQueries :
       lib_call' = Call("create_query_parsing_prompt", q, enhance_query_understanding(q),
                        create_query_parsing_prompt(enhance_query_understanding(q)),
                        enhance_query_understanding(q))
  /\ UNCHANGED << field_mappings, search_aliases >>
  /\ UNCHANGED << server_vars, conc_vars >>

\* services/utils.py: enhance_query_understanding
UtilsEnhanceQueryUnderstanding ==
  /\ \E q \in LibQueries :
       lib_call' = Call("utils.enhance_query_understanding", q, <<>>,
                        utils_enhance_query_understanding(q), <<>>)
  /\ UNCHANGED << field_mappings, search_aliases >>
  /\ UNCHANGED << server_vars, conc_vars >>

\* services/utils.py: is_date_string
UtilsIsDateString ==
  /\ \E value \in { leaf.s : leaf \in { l \in ConvertLeaves : l.t = "str" } } :
       lib_call' = Call("utils.is_date_string", value, <<>>,
                        utils_is_date_string(value), <<>>)
  /\ UNCHANGED << field_mappings, search_aliases >>
  /\ UNCHANGED << server_vars, conc_vars >>

\* services/utils.py: convert_string_dates_to_isodate
UtilsConvertStringDates ==
  /\ \E filter_dict \in ConvertInputs :
       lib_call' = Call("utils.convert_string_dates_to_isodate", <<>>, filter_dict,
                        utils_convert_string_dates_to_isodate(filter_dict), filter_dict)
  /\ UNCHANGED << field_mappings, search_aliases >>
  /\ UNCHANGED << server_vars, conc_vars >>

\* services/utils.py: PromptHelper._get_query_specific_fields
UtilsGetQuerySpecificFields ==
  /\ \E q \in LibQueries :
       lib_call' = Call("utils.get_query_specific_fields", q, <<>>,
                        utils_get_query_specific_fields(q), <<>>)
  /\ UNCHANGED << field_mappings, search_aliases >>
  /\ UNCHANGED << server_vars, conc_vars >>

LibNext ==
  \/ FindMatchingFields
  \/ ExpandSearchTerms
  \/ EnsureAwardIdInResults
  \/ GetFieldInfoForLlm
  \/ EnhanceQueryUnderstanding
  \/ ConvertStringDates
  \/ StoreContractData
  \/ StoreBulkContracts
  \/ BuildQueryParsingPrompt
  \/ UtilsEnhanceQueryUnderstanding
  \/ UtilsIsDateString
  \/ UtilsConvertStringDates
  \/ UtilsGetQuerySpecificFields

LibSpec == Init /\ [][LibNext]_vars

\* ---------------------------------------------------------------------
\* The event loop: one uvicorn process runs the coroutines of the routes
\* ---------------------------------------------------------------------

\* the external calls of one POST /query, in the order of the code: the
\* create_index calls of the constructor, the filter-generation call,
\* collection.find and the formatting call
HandlerCalls == << "create_index", "llm_filter", "find", "llm_format" >>

\* the calls that can follow the call at position step: the next one, or
\* collection.find directly when there is no OpenAI client
NextCalls(step) ==
  IF step = 1 THEN {2, 3} ELSE {step + 1} \cap (1..Len(HandlerCalls))

\* the server accepts a POST /query and schedules the coroutine of the route
AcceptRequest(r) ==
  /\ tasks[r].state = "absent"
  /\ tasks' = [tasks EXCEPT ![r].state = "pending"]
  /\ UNCHANGED << loop_task, call_log >>
  /\ UNCHANGED << server_vars, lib_vars >>

\* the event loop is free and runs the coroutine of a scheduled request
RunHandler(r) ==
  /\ loop_task = 0
  /\ tasks[r].state = "pending"
  /\ tasks' = [tasks EXCEPT ![r].state = "running"]
  /\ loop_task' = r
  /\ UNCHANGED call_log
  /\ UNCHANGED << server_vars, lib_vars >>

\* a coroutine that awaits its external call: the event loop is free while
\* the call is in progress
HandlerCallAwaited ==
  /\ loop_task # 0
  /\ \E k \in NextCalls(tasks[loop_task].step) :
       /\ call_log' = Append(call_log, [request |-> loop_task, call |-> HandlerCalls[k]])
       /\ tasks' = [tasks EXCEPT ![loop_task] = [state |-> "pending", step |-> k]]
  /\ loop_task' = 0
  /\ UNCHANGED << server_vars, lib_vars >>

\* the running coroutine makes its next external call and gets the reply:
\* the call is synchronous, the coroutine keeps the event loop
HandlerCall ==
  /\ loop_task # 0
  /\ \E k \in NextCalls(tasks[loop_task].step) :
       /\ call_log' = Append(call_log, [request |-> loop_task, call |-> HandlerCalls[k]])
       /\ tasks' = [tasks EXCEPT ![loop_task].step = k]
  /\ UNCHANGED loop_task
  /\ UNCHANGED << server_vars, lib_vars >>

\* the coroutine returns its response or raises, after any of its calls:
\* the event loop is free again
HandlerReturn ==
  /\ loop_task # 0
  /\ tasks' = [tasks EXCEPT ![loop_task].state = "done"]
  /\ loop_task' = 0
  /\ UNCHANGED call_log
  /\ UNCHANGED << server_vars, lib_vars >>

ConcNext ==
  \/ \E r \in 1..MaxConcurrent : AcceptRequest(r)
  \/ \E r \in 1..MaxConcurrent : RunHandler(r)
  \/ HandlerCall
  \/ HandlerReturn

ConcSpec == Init /\ [][ConcNext]_vars


\* ------------------------------------------------------------------------
\* Properties
\* ------------------------------------------------------------------------
\* a POST /query request has been answered and no other has started
Answered == pc = "idle" /\ handled > 0

\* the calls of the request to the model API
ModelCalls == Count(calls, "llm_filter") + Count(calls, "llm_format")

\* the calls of the request to the database driver
DriverCalls == Count(calls, "create_index") + Count(calls, "find")

\* C1: GET /health answers the fixed payload {"status": "healthy",
\* "message": "FPDS API is running"}, whatever health and query requests
\* were answered before it, failed ones included.
C1_HealthPayloadFixed ==
  health_response # NoHealth =>
    health_response = [status |-> "healthy", message |-> "FPDS API is running"]

\* a health check answered after a failed query request
C1_Witness ==
  /\ health_response = [status |-> "healthy", message |-> "FPDS API is running"]
  /\ health_after.handled > 0
  /\ health_after.failures > 0

\* C2: when an exception leaves FPDSQueryHelper.query, POST /query answers
\* 500 with the detail "Failed to process query" and not 200.
C2_RaisedGives500 ==
  (Answered /\ answer.kind = "raised") =>
    /\ response.status_code = 500
    /\ response.detail = "Failed to process query"

\* a request answered after query() raised
C2_Witness ==
  /\ Answered
  /\ answer.kind = "raised"
  /\ "handler" \in faults
  /\ response.status_code = 500

\* field names that must not be used in a set-aside filter (the prompt of
\* PromptHelper says so for the first; the other two are the fields that
\* its set-aside list leaves out)
DisallowedFields ==
  { "contracting_officers_business_size_selection",
    "sbirsttr",
    "fair_opportunitylimited_sources" }

\* C3: the filter forwarded to collection.find contains no disallowed field
\* name at any depth of its $and / $or / $nor tree.
C3_NoDisallowedFieldForwarded ==
  KeysOf(find_filter) \cap DisallowedFields = {}

\* C4: every 200 response of POST /query carries a string in data.results,
\* also when the formatting call failed or no model client exists.
C4_ResultsIsString ==
  (Answered /\ response.status_code = 200) => response.results.t = "str"

\* C5: every failure that the helper does not absorb, a failure while the
\* helper is constructed included, is answered with 500 and the detail
\* "Failed to process query".
C5_FailuresGiveGenericDetail ==
  (Answered /\ response.status_code # 200) =>
    /\ response.status_code = 500
    /\ response.detail = "Failed to process query"

\* the filter of a filter configuration is the empty dictionary
EmptyFilter(config) ==
  /\ config.t = "dict"
  /\ DictGet(config, "filter", EmptyDict) = EmptyDict

\* C6: a failure of the filter-generation call or of JSON parsing yields an
\* empty filter, a database error yields an empty result list, and every
\* other failure yields an HTTP 500: no failure has another outcome.
C6_ThreeOutcomes ==
  /\ (pc \in {"parsed", "executed", "returned"}
        /\ faults \cap {"filter_call", "filter_parse", "filter_type"} # {})
       => EmptyFilter(mongo_filter)
  /\ (pc \in {"executed", "returned"} /\ "find" \in faults) => results = <<>>
  /\ (Answered /\ faults \cap {"mongo_client", "prepare", "handler", "format_call"} # {})
       => response.status_code = 500

\* position of an external call in the order of query()
CallRank(name) ==
  CASE name = "create_index" -> 0
    [] name = "llm_filter" -> 1
    [] name = "find" -> 2
    [] name = "llm_format" -> 3

\* C7: within one request the filter-generation call comes before the
\* database find and the find before the formatting call; the find is not
\* issued before step 1 is over, nor the formatting call before step 2 is.
C7_CallOrder ==
  /\ \A i, j \in 1..Len(calls) : i < j => CallRank(calls[i]) <= CallRank(calls[j])
  /\ Count(calls, "find") > 0 => pc \in {"executed", "returned", "idle"}
  /\ Count(calls, "llm_format") > 0 => pc \in {"returned", "idle"}

\* a request that made all three calls
C7_Witness ==
  /\ Answered
  /\ Count(calls, "llm_filter") = 1
  /\ Count(calls, "find") = 1
  /\ Count(calls, "llm_format") = 1

\* C8 as stated: a request issues at most two model API calls and exactly
\* one database driver call, construction of the helper included.
C8_OneDriverCall ==
  (Answered /\ answer.kind # "none") =>
    /\ ModelCalls <= 2
    /\ DriverCalls = 1

\* C8 amended: at most two model API calls and at most one find, exactly
\* one find when the filter configuration is a dictionary; the helper's
\* construction adds between 1 and 16 create_index calls.
C8_CallCounts ==
  /\ ModelCalls <= 2
  /\ Count(calls, "find") <= 1
  /\ Count(calls, "create_index") <= 16
  /\ (Answered /\ answer.kind # "none") =>
       /\ Count(calls, "find") = (IF mongo_filter.t = "dict" THEN 1 ELSE 0)
       /\ Count(calls, "create_index") >= 1
       /\ DriverCalls <= 17

\* a request answered after 16 create_index calls, one find and two model calls
C8_Witness ==
  /\ Answered
  /\ ModelCalls = 2
  /\ Count(calls, "find") = 1
  /\ Count(calls, "create_index") = 16
  /\ DriverCalls = 17

\* C9: no step is retried: each of the filter-generation call, the find
\* and the formatting call is attempted at most once in a request, also
\* after it failed.
C9_NoRetry ==
  \A name \in {"llm_filter", "find", "llm_format"} : Count(calls, name) <= 1

\* a request in which all three calls were made and raised
C9_Witness ==
  /\ Answered
  /\ {"filter_call", "find", "format_call"} \subseteq faults
  /\ \A name \in {"llm_filter", "find", "llm_format"} : Count(calls, name) = 1

\* the query was recognised as a set-aside search
SetAsideRecognised ==
  \E i \in 1..Len(prompt.field_suggestions) :
    prompt.field_suggestions[i].field_type = "set_aside_fields"

\* the set-aside lists the prompt contains
PromptSetAsideLists ==
  { prompt.field_suggestions[i].fields :
      i \in { j \in 1..Len(prompt.field_suggestions) :
                prompt.field_suggestions[j].field_type = "set_aside_fields" } }
    \cup { prompt.set_aside_strategy }

\* C10: for a query recognised as a set-aside search the set-aside field
\* list of the prompt is exactly the four allowed fields and does not
\* contain contracting_officers_business_size_selection.
C10_SetAsideFieldsRestricted ==
  SetAsideRecognised =>
    \A fields \in PromptSetAsideLists :
      /\ fields = << "type_of_set_aside",
                     "idv_type_of_set_aside_idv_type_of_set_aside",
                     "type_of_set_aside_source_type_of_set_aside_source",
                     "local_area_set_aside" >>
      /\ \A i \in 1..Len(fields) :
           fields[i] # "contracting_officers_business_size_selection"

\* the positions of a request after the database step
AfterExecute == pc \in {"executed", "returned"} \/ Answered

\* the positions of a request after query() ended
AfterQuery == pc = "returned" \/ Answered

\* C11: the field catalogue and the alias dictionary are immutable: no
\* operation of the mapper, the query helper or the storage service changes
\* field_mappings or search_aliases after the mapper has been constructed.
C11_TablesNeverChange ==
  [][field_mappings' = field_mappings /\ search_aliases' = search_aliases]_vars

\* an expansion that found aliases has been made and the tables are the
\* ones the constructor built
C11_Witness ==
  /\ lib_call.op = "expand_search_terms"
  /\ Cardinality(lib_call.result) > 1
  /\ field_mappings = FieldMappings
  /\ search_aliases = SearchAliases

\* the keyword lists and the labels of the six intents, in the order of the
\* tests
IntentTerms ==
  << service_intent_terms, set_aside_intent_terms, agency_intent_terms,
     vendor_intent_terms, date_intent_terms, amount_intent_terms >>

IntentLabels ==
  << ServiceLabel, SetAsideLabel, AgencyLabel, VendorLabel, DateLabel, AmountLabel >>

\* C12: for each of the six intents the label of the intent is in the text
\* added to the query if and only if the lower-cased query contains one of
\* the keywords of the intent as a substring, whatever the word boundaries,
\* the order of the words and the other intents.
C12_LabelIffKeyword ==
  lib_call.op = "enhance_query_understanding" =>
    LET added == SubSeq(lib_call.result, Len(lib_call.query) + 1, Len(lib_call.result))
    IN \A i \in 1..6 :
         Contains(added, IntentLabels[i])
           <=> \E j \in 1..Len(IntentTerms[i]) :
                 Contains(Lower(lib_call.query), IntentTerms[i][j])

\* a query with a vendor, a year and an agency, in that order: three labels
C12_Witness ==
  /\ lib_call.op = "enhance_query_understanding"
  /\ lib_call.query = <<"B","o","e","i","n","g"," ","2","0","2","5"," ","N","A","S","A">>
  /\ Contains(lib_call.result, AgencyLabel)
  /\ Contains(lib_call.result, VendorLabel)
  /\ Contains(lib_call.result, DateLabel)

\* C13: when query() returns its error dictionary the endpoint answers 500
\* with the generic detail, and no 200 response carries the text of an
\* internal exception in data.results.
C13_ErrorDictionaryGives500 ==
  Answered =>
    /\ answer.kind = "error" =>
         /\ response.status_code = 500
         /\ response.detail = "Failed to process query"
         /\ response.results = NoText
    /\ response.status_code = 200 =>
         /\ answer.kind = "result"
         /\ response.results \in {PyNone} \cup {Text(text) : text \in FormattedTexts}

\* a request for which query() returned the error dictionary
C13_Witness ==
  /\ Answered
  /\ answer.kind = "error"
  /\ "error" \in answer.keys
  /\ response.status_code = 500

\* C14: when the filter-generation call fails (it raises, or there is no
\* client) the filter configuration is the empty dictionary, the database
\* is queried once with the empty filter, sorted by
\* date_signed_award_completion_date descending and limited to 100, and the
\* formatting step is run on the results of that query.
C14_FilterCallFailureContinues ==
  "filter_call" \in faults =>
    /\ mongo_filter = JDict(<<>>)
    /\ AfterExecute =>
         /\ Count(calls, "find") = 1
         /\ find_filter = JDict(<<>>)
         /\ fetch_sort = JDict(<< KV("date_signed_award_completion_date", JNum(-1)) >>)
         /\ fetch_limit = 100
         /\ Len(results) <= 100
    /\ AfterQuery =>
         /\ "prepare" \in faults <=> prepare_results_raises(results)
         /\ "prepare" \notin faults =>
              /\ format_prompt.built
              /\ format_prompt.results_count = Len(results)
              /\ answer.kind = "result"

\* the filter-generation call raised, the database returned documents and
\* the formatting call returned a text
C14_Witness ==
  /\ Answered
  /\ "filter_call" \in faults
  /\ Count(calls, "llm_filter") = 1
  /\ Len(results) > 0
  /\ answer.kind = "result"
  /\ answer.formatted_response.t = "str"

\* the reply is not valid JSON, or is a JSON object without the key "filter"
ReplyUnusable ==
  /\ llm_reply.received
  /\ \/ ~llm_reply.valid
     \/ llm_reply.value.t = "dict" /\ ~HasKey(llm_reply.value, "filter")

C16_FilterConfigIsDict ==
  pc \in {"parsed", "executed", "returned"} =>
    /\ mongo_filter.t = "dict"
    /\ mongo_filter = JDict(<<>>) \/ HasKey(mongo_filter, "filter")

\* C17: when the find, the sort, the limit or the read of the cursor raises,
\* the database step returns the empty list and the request goes on to the
\* formatting call with the summary "No results found." and a results_count
\* of 0.
C17_FindFailureGivesNoResults ==
  ("find" \in faults /\ Count(calls, "find") = 1) =>
    /\ results = <<>>
    /\ AfterQuery =>
         /\ format_prompt.built
         /\ format_prompt.results_summary.text = "No results found."
         /\ format_prompt.results_count = 0
         /\ answer.kind = "result"
         /\ answer.results_count = 0
         /\ openai_client => Count(calls, "llm_format") = 1

\* the find raised after a reply that had a filter, and the formatting call
\* was made and returned a text
C17_Witness ==
  /\ Answered
  /\ faults = {"find"}
  /\ Count(calls, "find") = 1
  /\ Count(calls, "llm_format") = 1
  /\ response.status_code = 200

\* C18: the number of documents the database step fetches is at most the
\* limit of the configuration when the reply has one, and at most 100
\* otherwise, for every limit the reply can have, 0 and null included.
C18_FetchBounded ==
  (AfterExecute /\ mongo_filter.t = "dict") =>
    Len(results) <=
      (IF HasKey(mongo_filter, "limit") /\ GetKey(mongo_filter, "limit").t = "num"
       THEN GetKey(mongo_filter, "limit").n
       ELSE 100)

\* the limits the convenience methods are called with
ConvenienceLimits == {-1, 0, 1, 5, 100}

\* C19: on success results_count is the number of documents of the
\* database step and raw_results is the first min(10, results_count) of
\* them in order; a convenience method only shortens raw_results and does
\* not raise when query() returned.
C19_ResultDictionaryAndConvenience ==
  (pc = "returned" /\ answer.kind \in {"result", "error"}) =>
    /\ answer.kind = "result" =>
         /\ answer.results_count = Len(results)
         /\ Len(answer.raw_results) = (IF Len(results) < 10 THEN Len(results) ELSE 10)
         /\ \A i \in 1..Len(answer.raw_results) : answer.raw_results[i] = results[i]
    /\ \A limit \in ConvenienceLimits :
         LET outcome == convenience_method(answer, limit)
         IN /\ ~outcome.raises
            /\ Len(outcome.value.raw_results) <= Len(answer.raw_results)
            /\ \A i \in 1..Len(outcome.value.raw_results) :
                 outcome.value.raw_results[i] = answer.raw_results[i]

\* the date strings among ConvertLeaves that are dates
ValidDateTexts ==
  { <<"2","0","2","5","-","0","7","-","0","1">>,
    <<"2","0","2","5","-","0","7","-","0","1","T","0","0",":","0","0",":","0","0",".","0","0","0","Z">>,
    <<"2","0","2","4","-","0","2","-","2","9">>,
    <<"2","0","2","5","-","0","7","-","0","1","T","0","0",":","0","0",":","0","0">>,
    <<"2","0","2","5","-","0","7","-","0","1","T","0","0",":","0","0",":","0","0",".","0","0","0">> }

\* after has the shape, the keys and the values of before, except that the
\* strings that are dates have become dates
RECURSIVE SameExceptDates(_, _)
SameExceptDates(before, after) ==
  IF before.t \in {"dict", "list"}
  THEN /\ after.t = before.t
       /\ Len(after.items) = Len(before.items)
       /\ \A i \in 1..Len(before.items) :
            /\ after.items[i].k = before.items[i].k
            /\ SameExceptDates(before.items[i].v, after.items[i].v)
  ELSE IF before.t = "str" /\ before.s \in ValidDateTexts
  THEN after = JDate(before.s)
  ELSE after = before

\* C20: the date conversion keeps the keys, the list lengths and the order
\* of the filter, converts exactly the strings that match a date pattern and
\* are dates, leaves every other value unchanged (a date-shaped string that
\* is not a date stays a string), does not modify its argument, and applied
\* to its result gives that result.
C20_ConversionPreservesShape ==
  lib_call.op = "convert_string_dates_to_isodate" =>
    /\ SameExceptDates(lib_call.argument, lib_call.result)
    /\ lib_call.argument_after = lib_call.argument
    /\ convert_string_dates_to_isodate(lib_call.result) = lib_call.result

\* a list with a date-shaped string that is not a date and a string that is
\* one: only the second was converted
C20_Witness ==
  /\ lib_call.op = "convert_string_dates_to_isodate"
  /\ lib_call.argument = JList(<< JStr(<<"2","0","2","5","-","0","2","-","3","0">>), JStr(TextNasa), JStr(TextDay) >>)
  /\ lib_call.result = JList(<< JStr(<<"2","0","2","5","-","0","2","-","3","0">>), JStr(TextNasa), JDate(TextDay) >>)

\* C21: the helpers of services/utils.py return, for every input, the value
\* the FPDSQueryHelper method of the same name returns:
\* enhance_query_understanding, is_date_string,
\* convert_string_dates_to_isodate and _get_query_specific_fields.
C21_UtilsBehaveLikeHelper ==
  /\ lib_call.op = "utils.enhance_query_understanding" =>
       lib_call.result = enhance_query_understanding(lib_call.query)
  /\ lib_call.op = "utils.is_date_string" =>
       lib_call.result = is_date_string(lib_call.query)
  /\ lib_call.op = "utils.convert_string_dates_to_isodate" =>
       lib_call.result = convert_string_dates_to_isodate(lib_call.argument)
  /\ lib_call.op = "utils.get_query_specific_fields" =>
       lib_call.result = get_query_specific_fields(lib_call.query)

\* the labels of the intents i..6 that have a keyword in the lower-cased
\* query, in the order of the intents
RECURSIVE MatchedLabels(_, _)
MatchedLabels(i, query_lower) ==
  IF i > 6 THEN <<>>
  ELSE (IF \E j \in 1..Len(IntentTerms[i]) : Contains(query_lower, IntentTerms[i][j])
        THEN << IntentLabels[i] >> ELSE <<>>)
       \o MatchedLabels(i + 1, query_lower)

\* the labels written one after the other with "; " between two of them
RECURSIVE SemicolonSeparated(_)
SemicolonSeparated(labels) ==
  IF Len(labels) = 0 THEN <<>>
  ELSE Head(labels)
         \o (IF Len(labels) > 1 THEN << ";", " " >> ELSE <<>>)
         \o SemicolonSeparated(Tail(labels))

\* C22: the enhanced query starts with the query unchanged; it is the query
\* itself exactly when no intent matched, and otherwise the query followed
\* by "\n\nCONTEXT: " and the matched labels joined by "; ", each once and
\* in the order service, set-aside, agency, vendor, date, amount.
C22_EnhancedQueryLayout ==
  lib_call.op = "enhance_query_understanding" =>
    LET labels == MatchedLabels(1, Lower(lib_call.query))
    IN /\ Len(lib_call.result) >= Len(lib_call.query)
       /\ SubSeq(lib_call.result, 1, Len(lib_call.query)) = lib_call.query
       /\ lib_call.result = lib_call.query <=> Len(labels) = 0
       /\ Len(labels) > 0 =>
            lib_call.result =
              lib_call.query \o <<"\n","\n","C","O","N","T","E","X","T",":"," ">> \o SemicolonSeparated(labels)

\* a query with capital letters and two intents: the service and the agency
\* label follow the query as it was written
C22_Witness ==
  /\ lib_call.op = "enhance_query_understanding"
  /\ lib_call.query = <<"N","a","v","y"," ","I","T">>
  /\ lib_call.result =
       <<"N","a","v","y"," ","I","T">> \o ContextPrefix \o ServiceLabel \o LabelSeparator \o AgencyLabel

\* the prompt has a field group of the type
PromptHasGroup(built, field_type) ==
  \E i \in 1..Len(built.field_suggestions) :
    built.field_suggestions[i].field_type = field_type

\* C23: the prompt built from the enhanced query has the service field
\* group exactly when the SERVICE/OPPORTUNITY tag was added, the set-aside
\* field group exactly when the SET-ASIDE tag was added and the agency field
\* group exactly when the AGENCY tag was added.
C23_TagsAndFieldGroupsAgree ==
  lib_call.op = "create_query_parsing_prompt" =>
    LET added == SubSeq(lib_call.argument, Len(lib_call.query) + 1, Len(lib_call.argument))
    IN /\ Contains(added, ServiceLabel) <=> PromptHasGroup(lib_call.result, "service_fields")
       /\ Contains(added, SetAsideLabel) <=> PromptHasGroup(lib_call.result, "set_aside_fields")
       /\ Contains(added, AgencyLabel) <=> PromptHasGroup(lib_call.result, "agency_fields")

\* the fields of the category award_id
AwardIdFields ==
  { "award_id_agency_id", "award_id_procurement_identifier",
    "award_id_modification_number", "award_id_transaction_number",
    "solicitation_id_solicitation_id" }

\* C24: after ensure_award_id_in_results every result has the five award_id
\* fields; a field that was present keeps its value, a missing one is "Not
\* Available", no other field is added, removed or changed, and the list
\* keeps its length and order.
C24_AwardIdsEnsured ==
  lib_call.op = "ensure_award_id_in_results" =>
    LET before == lib_call.argument
        after == lib_call.result
    IN /\ Len(after) = Len(before)
       /\ lib_call.argument_after = after
       /\ \A i \in 1..Len(before) :
            /\ DOMAIN after[i] = DOMAIN before[i] \cup AwardIdFields
            /\ \A f \in DOMAIN after[i] :
                 after[i][f] = IF f \in DOMAIN before[i] THEN before[i][f]
                               ELSE [t |-> "str", v |-> "Not Available"]

\* three results: the first had two of the five fields, the second none
C24_Witness ==
  /\ lib_call.op = "ensure_award_id_in_results"
  /\ Len(lib_call.argument) = 3
  /\ "award_id_agency_id" \in DOMAIN lib_call.argument[1]
  /\ "solicitation_id_solicitation_id" \notin DOMAIN lib_call.argument[1]
  /\ DOMAIN lib_call.argument[2] \cap AwardIdFields = {}
  /\ lib_call.result[1]["solicitation_id_solicitation_id"].v = "Not Available"
  /\ lib_call.result[1]["award_id_agency_id"] = lib_call.argument[1]["award_id_agency_id"]

\* the score the claim gives a field for a lower-cased query
ClaimedScore(field_info, query_lower) ==
  (IF Contains(Lower(field_info.description), query_lower) THEN 10 ELSE 0)
    + 5 * Cardinality({ j \in 1..Len(field_info.search_terms) :
                          \/ Contains(Lower(field_info.search_terms[j]), query_lower)
                          \/ Contains(query_lower, Lower(field_info.search_terms[j])) })
    + (IF Contains(field_info.category, query_lower) THEN 3 ELSE 0)

\* C25: find_matching_fields returns only fields with a score greater than
\* 0, at most one entry for a field, in the order of non-increasing score;
\* the score is 10 if the lower-cased query is in the description, plus 5
\* for every search term that contains the query or is contained in it,
\* plus 3 if the query is in the category.
C25_MatchesScoredAndSorted ==
  lib_call.op = "find_matching_fields" =>
    LET matches == lib_call.result
        query_lower == Lower(lib_call.query)
    IN /\ \A i \in 1..Len(matches) :
            /\ matches[i].score > 0
            /\ \E k \in 1..Len(field_mappings) :
                 /\ field_mappings[k].name = matches[i].field_name
                 /\ matches[i].score = ClaimedScore(field_mappings[k], query_lower)
       /\ \A i, j \in 1..Len(matches) :
            i < j => /\ matches[i].field_name # matches[j].field_name
                     /\ matches[i].score >= matches[j].score

\* the query "agency": one field scores 25 (description and three search
\* terms), another 20
C25_Witness ==
  /\ lib_call.op = "find_matching_fields"
  /\ lib_call.query = <<"a","g","e","n","c","y">>
  /\ Len(lib_call.result) = 2
  /\ lib_call.result[1].field_name = "award_id_agency_id"
  /\ lib_call.result[1].score = 25
  /\ lib_call.result[2].score = 20

\* C26: the external calls of one POST /query are all made before any
\* external call of another request starts, in whatever order the requests
\* arrive and are run: in the log of calls the calls of a request are
\* consecutive, and a coroutine that has made a call is the one the event
\* loop runs until it returns.
C26_NoInterleaving ==
  /\ \A i, k \in 1..Len(call_log) :
       (i < k /\ call_log[i].request = call_log[k].request) =>
         \A j \in i..k : call_log[j].request = call_log[i].request
  /\ \A r \in 1..MaxConcurrent :
       (tasks[r].step > 0 /\ tasks[r].state # "done") => loop_task = r

\* request 3 has made its calls and returned, request 2 has made two calls
\* and runs, request 1 was accepted and waits for the event loop
C26_Witness ==
  /\ tasks[3].state = "done"
  /\ \E i \in 1..Len(call_log) : call_log[i].request = 3
  /\ loop_task = 2
  /\ tasks[2].step = 3
  /\ tasks[1].state = "pending"
  /\ call_log[Len(call_log)] = [request |-> 2, call |-> "find"]

\* the filter configuration the reply of the model to this request gives
FilterOfReply ==
  IF ~llm_reply.received \/ parse_llm_filter_response(llm_reply).raises
  THEN EmptyDict
  ELSE parse_llm_filter_response(llm_reply).value

\* the response the question and the replies to this request determine:
\* faults are the calls of this request that raised, results is what the
\* database returned to it, answer.formatted_response the text the model
\* returned to its formatting call
OutcomeOfRequest ==
  IF "mongo_client" \in faults THEN UnhandledResponse
  ELSE IF "handler" \in faults THEN FailedResponse
  ELSE IF FilterOfReply.t # "dict" \/ prepare_results_raises(results) THEN FailedResponse
  ELSE IF "format_call" \in faults THEN OkResponse(PyNone)
  ELSE OkResponse(answer.formatted_response)

\* C27: requests share no mutable state: the status and body of a response
\* are a function of the question and of the replies of the model and the
\* database to that request, whatever earlier requests were answered, and a
\* request starts with nothing left of the request before it.
C27_OutcomeOfOwnRequest ==
  /\ Answered => response = OutcomeOfRequest
  /\ pc = "received" =>
       /\ calls = <<>> /\ faults = {} /\ results = <<>>
       /\ answer = NoAnswer /\ mongo_filter = JNull /\ llm_reply = NoReply
       /\ prompt = NoPrompt /\ format_prompt = NoFormatPrompt

\* the second request is answered 200 with its documents summarised, after
\* the first one failed
C27_Witness ==
  /\ Answered
  /\ handled = 2
  /\ failures = 1
  /\ response.status_code = 200
  /\ Len(results) > 0
  /\ response.results = Text("Summary B")

====
